---- MODULE Spec2Model ----
(***************************************************************************)
(* A model of the cobrax interaction engine: the command-tree flattening   *)
(* (cobra/command_tree.go and its CommandNode variant), the tree menu      *)
(* (tui tree menu), the search filter (tui/search_menu.go), and the        *)
(* interactive session of the embedded Command (executeTUI) with the       *)
(* bubbletea panel models of tui/default_renderer.go.                      *)
(*                                                                         *)
(* Go strings are sequences of one-character strings, so that ToLower,     *)
(* Contains, Fields, Join and TrimPrefix are computed, not assumed.        *)
(***************************************************************************)
EXTENDS Integers, Sequences, FiniteSets, TLC

VARIABLES
    \* ---- command catalog and the flattening functions ----
    catalog,      \* the spf13cobra command tree handed to the builders
    tpc,          \* which catalog operation has been applied ("init" before any)
    flat,         \* result of GetExecutableCommands (cobra/command_tree.go)
    flatNode,     \* result of GetExecutableCommands (CommandNode variant)
    menuItems,    \* the flat menu navigateAndExecute builds from flat
    menuItemsNode,\* the same menu built from flatNode
    treeMenu,     \* TreeMenuData.Items returned by BuildTreeMenu
    \* ---- the search filter as a function ----
    fItems,       \* the item list handed to the filter ([]*TreeMenuItem; the
                  \* embedded MenuItem of each is what SearchMenuModel holds)
    fQuery,       \* the query
    fpc,          \* which filter has been applied, and how often
    fOut,         \* the list after one application
    fOut2,        \* the list after filtering fOut again with the same query
    \* ---- the interactive session and its panels ----
    sess,         \* executeTUI: position, navigation, outcome, the pflag values
    menu,         \* the menuModel of the menu being shown
    form,         \* the formModel of the form being (or last) shown
    confirm,      \* the confirmModel of the confirmation being (or last) shown
    search,       \* the SearchMenuModel of a search menu
    hist,         \* history of a form: names toggled or edited, values at edit entry
    collect,      \* a call of collectFlagItems: its target and its result
    call          \* a call of one of the other operations: its inputs, its
                  \* position and what it has returned

treeVars == <<catalog, tpc, flat, flatNode, menuItems, menuItemsNode, treeMenu>>

filterVars == <<fItems, fQuery, fpc, fOut, fOut2>>

sessVars == <<sess, menu, form, confirm, search, hist, collect, call>>

auxVars == <<search, hist, collect, call>>

vars == <<treeVars, filterVars, sessVars>>

(***************************************************************************)
(* Bounds                                                                  *)
(***************************************************************************)
MaxNodes == 5

MaxItems == 3

\* longest edit buffer typed into a form
MaxBuf == 1

(***************************************************************************)
(* Strings                                                                 *)
(***************************************************************************)
SP == " "

EmptyStr == <<>>

\* strings.ToLower on one character of the modelled alphabet
LowerChar(ch) ==
    CASE ch = "A" -> "a"
      [] ch = "B" -> "b"
      [] ch = "T" -> "t"
      [] OTHER -> ch

\* strings.ToLower
ToLower(s) == [i \in 1..Len(s) |-> LowerChar(s[i])]

\* strings.HasPrefix
HasPrefix(s, p) == Len(p) <= Len(s) /\ SubSeq(s, 1, Len(p)) = p

\* strings.Contains
Contains(s, sub) ==
    \E i \in 0..(Len(s) - Len(sub)) : SubSeq(s, i + 1, i + Len(sub)) = sub

\* strings.TrimPrefix
TrimPrefix(s, p) == IF HasPrefix(s, p) THEN SubSeq(s, Len(p) + 1, Len(s)) ELSE s

\* strings.Fields: the maximal runs of non-space characters, in order
RECURSIVE FieldsFrom(_, _, _)
FieldsFrom(s, i, cur) ==
    IF i > Len(s)
    THEN IF cur = <<>> THEN <<>> ELSE <<cur>>
    ELSE IF s[i] = SP
         THEN (IF cur = <<>> THEN <<>> ELSE <<cur>>) \o FieldsFrom(s, i + 1, <<>>)
         ELSE FieldsFrom(s, i + 1, Append(cur, s[i]))

Fields(s) == FieldsFrom(s, 1, <<>>)

\* strings.Join(parts, " ")
RECURSIVE Join(_)
Join(parts) ==
    IF parts = <<>> THEN <<>>
    ELSE IF Len(parts) = 1 THEN parts[1]
    ELSE parts[1] \o <<SP>> \o Join(Tail(parts))

\* append(result, lists[1]..., lists[2]..., ...)
RECURSIVE ConcatAll(_)
ConcatAll(lists) ==
    IF lists = <<>> THEN <<>> ELSE lists[1] \o ConcatAll(Tail(lists))

(***************************************************************************)
(* The command catalog (the external spf13cobra.Command tree)              *)
(*   parent[n] : the parent command (0 for the root, node 1)               *)
(*   run[n]    : Run != nil || RunE != nil                                 *)
(*   listed[n] : the command passes getAvailableCommands                   *)
(*   use[n]    : the Use string; Name() is its first word                  *)
(***************************************************************************)
Nodes == 1..MaxNodes

Root == 1

NodeLetter == <<"r", "a", "b", "c", "d", "e", "f">>

\* Use strings: every command its own one-letter name
UseDistinct == [n \in Nodes |-> <<NodeLetter[n]>>]

\* Use strings that carry an argument synopsis after the name ("a x")
UseWithArgs == [n \in Nodes |-> <<NodeLetter[n], SP, "x">>]

\* Use strings in which the non-root commands share two names
UseShared == [n \in Nodes |-> IF n = Root THEN <<"r">> ELSE <<NodeLetter[2 + (n % 2)]>>]

Usings == {UseDistinct, UseWithArgs, UseShared}

Kinds == {"run", "group", "hidden"}

Catalogs ==
    { [parent |-> p, run |-> [n \in Nodes |-> k[n] = "run"],
       listed |-> [n \in Nodes |-> n = Root \/ k[n] # "hidden"], use |-> u] :
        p \in { q \in [Nodes -> 0..MaxNodes] :
                    /\ q[Root] = 0
                    /\ \A n \in Nodes \ {Root} : q[n] \in 1..(n - 1) },
        k \in { kk \in [Nodes -> Kinds] : kk[Root] # "hidden" },
        u \in Usings }

\* cobra's Command.Name(): the first word of Use
CmdName(c, n) == LET f == Fields(c.use[n]) IN IF f = <<>> THEN EmptyStr ELSE f[1]

\* cobra's Command.Commands(): the children in declaration order
RECURSIVE CommandsFrom(_, _, _)
CommandsFrom(c, n, m) ==
    IF m > MaxNodes THEN <<>>
    ELSE (IF c.parent[m] = n THEN <<m>> ELSE <<>>) \o CommandsFrom(c, n, m + 1)

Commands(c, n) == CommandsFrom(c, n, 1)

\* getAvailableCommands: drops unavailable, hidden, completion and help commands
getAvailableCommands(c, cmds) == SelectSeq(cmds, LAMBDA m : c.listed[m])

(***************************************************************************)
(* cobra/command_tree.go                                                   *)
(* An item carries src, the command it was built from; the Go struct has   *)
(* no such field, it is kept here to state which command an entry stands   *)
(* for.                                                                    *)
(***************************************************************************)
RECURSIVE BuildCommandTree(_, _)
BuildCommandTree(c, n) ==
    LET children == getAvailableCommands(c, Commands(c, n))
    IN [ID |-> CmdName(c, n), Name |-> CmdName(c, n), Use |-> c.use[n],
        IsRunnable |-> c.run[n],
        Children |-> [i \in 1..Len(children) |-> BuildCommandTree(c, children[i])],
        src |-> n]

\* mutant: the node is appended after its children (post-order)
RECURSIVE flattenExecutableCommands_PostOrder(_, _)
flattenExecutableCommands_PostOrder(item, path) ==
    LET own == IF item.IsRunnable
               THEN << [ID |-> item.ID, Name |-> item.Name, Use |-> item.Use,
                        IsRunnable |-> TRUE, Children |-> <<>>, src |-> item.src] >>
               ELSE <<>>
    IN ConcatAll([i \in 1..Len(item.Children) |->
                     flattenExecutableCommands_PostOrder(item.Children[i], path)]) \o own

RECURSIVE flattenExecutableCommands(_, _)
flattenExecutableCommands(item, path) ==
    LET currentPath == IF path # EmptyStr THEN path \o <<SP>> \o item.Name ELSE item.Name
        own == IF item.IsRunnable
               THEN << [ID |-> item.ID, Name |-> item.Name, Use |-> item.Use,
                        IsRunnable |-> TRUE, Children |-> <<>>, src |-> item.src] >>
               ELSE <<>>
    IN own \o ConcatAll([i \in 1..Len(item.Children) |->
                            flattenExecutableCommands(item.Children[i], currentPath)])

GetExecutableCommands(c) == flattenExecutableCommands(BuildCommandTree(c, Root), EmptyStr)

(***************************************************************************)
(* The CommandNode variant of the command tree (package cobra, own         *)
(* CommandNode type): the root is skipped when it has children, and the    *)
(* emitted Use is the display path with its first word removed.            *)
(***************************************************************************)
RECURSIVE flattenExecutableCommandsNode(_, _)
flattenExecutableCommandsNode(item, path) ==
    LET currentPath == IF path # EmptyStr THEN path \o <<SP>> \o item.Use ELSE item.Use
        parts == Fields(currentPath)
        displayPath == IF Len(parts) > 1 THEN Join(Tail(parts)) ELSE currentPath
        own == IF item.IsRunnable
               THEN << [ID |-> item.ID, Name |-> item.Name, Use |-> displayPath,
                        IsRunnable |-> TRUE, Children |-> <<>>, src |-> item.src] >>
               ELSE <<>>
    IN own \o ConcatAll([i \in 1..Len(item.Children) |->
                            flattenExecutableCommandsNode(item.Children[i], currentPath)])

GetExecutableCommandsNode(c) ==
    LET root == BuildCommandTree(c, Root)
    IN IF Len(root.Children) > 0
       THEN ConcatAll([i \in 1..Len(root.Children) |->
                          flattenExecutableCommandsNode(root.Children[i], EmptyStr)])
       ELSE flattenExecutableCommandsNode(root, EmptyStr)

(***************************************************************************)
(* cobra/decorate.go, navigateAndExecute: the flat menu's items            *)
(***************************************************************************)
FlatMenuItem(rootName, execCmd) ==
    LET trimmed == TrimPrefix(execCmd.Use, rootName \o <<SP>>)
        displayPath == IF trimmed = execCmd.Use THEN execCmd.Name ELSE trimmed
    IN [ID |-> execCmd.ID, Label |-> displayPath, src |-> execCmd.src]

FlatMenuItems(rootName, executableCommands) ==
    [i \in 1..Len(executableCommands) |-> FlatMenuItem(rootName, executableCommands[i])]

(***************************************************************************)
(* The tree menu (package tui): buildTree, flattenTree, BuildTreeMenu      *)
(* A TreeMenuItem made by buildTree for a list is a wrapper: its Label and *)
(* ID are empty and its IsLeaf is false (Go zero values).                  *)
(***************************************************************************)
RECURSIVE buildTree(_, _)
buildTree(items, level) ==
    IF Len(items) = 0 THEN <<>>     \* nil
    ELSE << [ID |-> EmptyStr, Label |-> EmptyStr, Level |-> level, Path |-> EmptyStr,
             IsLeaf |-> FALSE, src |-> 0,
             Children |->
               [i \in 1..Len(items) |->
                  [ID |-> items[i].ID, Label |-> items[i].Name, Level |-> level,
                   Path |-> EmptyStr,
                   IsLeaf |-> items[i].IsRunnable \/ Len(items[i].Children) = 0,
                   src |-> items[i].src,
                   Children |-> ConcatAll([j \in 1..Len(items[i].Children) |->
                                   buildTree(<<items[i].Children[j]>>, level + 1)])]]] >>

RECURSIVE flattenTree(_, _, _)
flattenTree(node, level, path) ==
    LET currentPath == IF node.Label # EmptyStr
                       THEN (IF path # EmptyStr THEN path \o <<SP>> \o node.Label
                                                ELSE node.Label)
                       ELSE path
        own == IF node.IsLeaf /\ node.Label # EmptyStr
               THEN << [ID |-> node.ID, Label |-> node.Label, Level |-> level,
                        Path |-> currentPath, IsLeaf |-> TRUE, src |-> node.src,
                        Children |-> <<>>] >>
               ELSE <<>>
    IN own \o ConcatAll([i \in 1..Len(node.Children) |->
                            flattenTree(node.Children[i], level + 1, currentPath)])

\* buildTree returns a pointer or nil: here a list of zero or one node
BuildTreeMenu(commands) ==
    LET root == buildTree(commands, 0)
    IN IF root # <<>> THEN flattenTree(root[1], 0, EmptyStr) ELSE <<>>

(***************************************************************************)
(* Specification SpecTree: a catalog is drawn, then one of the catalog     *)
(* operations is applied to it.                                            *)
(***************************************************************************)
FilterIdle ==
    /\ fItems = <<>>
    /\ fQuery = <<>>
    /\ fpc = "off"
    /\ fOut = <<>>
    /\ fOut2 = <<>>

NoPanel == <<>>

\* no history is kept
NoHist == <<>>

\* no operation is being called
NoCall == [pc |-> "off"]

AuxIdle ==
    /\ search = NoPanel
    /\ hist = NoHist
    /\ collect = [pc |-> "off"]
    /\ call = NoCall

SessIdle ==
    /\ sess = [pc |-> "off"]
    /\ menu = NoPanel
    /\ form = NoPanel
    /\ confirm = NoPanel
    /\ AuxIdle

TreeInit ==
    /\ FilterIdle
    /\ SessIdle
    /\ catalog \in Catalogs
    /\ tpc = "init"
    /\ flat = <<>>
    /\ flatNode = <<>>
    /\ menuItems = <<>>
    /\ menuItemsNode = <<>>
    /\ treeMenu = <<>>

DoGetExecutableCommands ==
    /\ tpc = "init"
    /\ tpc' = "flat"
    /\ flat' = GetExecutableCommands(catalog)
    /\ UNCHANGED <<catalog, flatNode, menuItems, menuItemsNode, treeMenu>>
    /\ UNCHANGED <<filterVars, sessVars>>

DoGetExecutableCommandsNode ==
    /\ tpc = "init"
    /\ tpc' = "flatNode"
    /\ flatNode' = GetExecutableCommandsNode(catalog)
    /\ UNCHANGED <<catalog, flat, menuItems, menuItemsNode, treeMenu>>
    /\ UNCHANGED <<filterVars, sessVars>>

\* navigateAndExecute up to its RenderCommandMenu call
DoNavigateBuildMenu ==
    /\ tpc = "init"
    /\ tpc' = "menu"
    /\ flat' = GetExecutableCommands(catalog)
    /\ menuItems' = FlatMenuItems(CmdName(catalog, Root), flat')
    /\ flatNode' = GetExecutableCommandsNode(catalog)
    /\ menuItemsNode' = FlatMenuItems(CmdName(catalog, Root), flatNode')
    /\ UNCHANGED <<catalog, treeMenu>>
    /\ UNCHANGED <<filterVars, sessVars>>

DoBuildTreeMenu ==
    /\ tpc = "init"
    /\ tpc' = "treeMenu"
    /\ treeMenu' = BuildTreeMenu(<<BuildCommandTree(catalog, Root)>>)
    /\ UNCHANGED <<catalog, flat, flatNode, menuItems, menuItemsNode>>
    /\ UNCHANGED <<filterVars, sessVars>>

TreeNext ==
    \/ DoGetExecutableCommands
    \/ DoGetExecutableCommandsNode
    \/ DoNavigateBuildMenu
    \/ DoBuildTreeMenu

SpecTree == TreeInit /\ [][TreeNext]_vars

(***************************************************************************)
(* Properties of the catalog operations                                    *)
(***************************************************************************)
\* the commands from the root down to n
RECURSIVE PathTo(_, _)
PathTo(c, n) == IF n = Root THEN <<Root>> ELSE Append(PathTo(c, c.parent[n]), n)

\* n is reachable from the root through listed commands only
Available(c, n) == \A i \in 1..Len(PathTo(c, n)) : c.listed[PathTo(c, n)[i]]

IsPrefix(p, q) == Len(p) <= Len(q) /\ SubSeq(q, 1, Len(p)) = p

\* a comes before b in the depth-first pre-order of the catalog: a is an
\* ancestor of b, or where their paths part a's branch is the earlier child
PreBefore(c, a, b) ==
    LET pa == PathTo(c, a)
        pb == PathTo(c, b)
    IN /\ a # b
       /\ \/ IsPrefix(pa, pb)
          \/ \E i \in 1..Len(pa) :
                /\ i <= Len(pb)
                /\ SubSeq(pa, 1, i - 1) = SubSeq(pb, 1, i - 1)
                /\ pa[i] < pb[i]

SrcOf(list) == [i \in 1..Len(list) |-> list[i].src]

RunnableAvailable(c) == { n \in Nodes : Available(c, n) /\ c.run[n] }

HasAvailableChildren(c, n) == \E m \in Nodes : c.parent[m] = n /\ c.listed[m]

C6_RunnableRootIncluded ==
    (tpc = "flatNode" /\ catalog.run[Root] /\ HasAvailableChildren(catalog, Root)) =>
        \E i \in 1..Len(flatNode) : flatNode[i].src = Root

\* the names of the commands from the root's child down to n, space-joined
DisplayPath(c, n) ==
    LET p == PathTo(c, n)
    IN Join([i \in 1..(Len(p) - 1) |-> CmdName(c, p[i + 1])])

\* Scenario A: root -> {a, b -> {c, d}} with a, c, d runnable
ScenarioA ==
    [parent |-> <<0, 1, 1, 3, 3>>,
     run    |-> <<FALSE, TRUE, FALSE, TRUE, TRUE>>,
     listed |-> <<TRUE, TRUE, TRUE, TRUE, TRUE>>,
     use    |-> <<<<"r">>, <<"a">>, <<"b">>, <<"c">>, <<"d">>>>]

ScenarioALabels == << <<"a">>, <<"b", SP, "c">>, <<"b", SP, "d">> >>

LabelsOf(items) == [i \in 1..Len(items) |-> items[i].Label]

\* C7 (as claimed): every entry of the flat menu below the root is labelled
\* with its display path, and Scenario A is labelled a, "b c", "b d".
C7_LabelIsDisplayPath ==
    tpc = "menu" =>
        /\ \A i \in 1..Len(menuItems) :
              menuItems[i].src # Root =>
                  menuItems[i].Label = DisplayPath(catalog, menuItems[i].src)
        /\ \A i \in 1..Len(menuItemsNode) :
              menuItemsNode[i].src # Root =>
                  menuItemsNode[i].Label = DisplayPath(catalog, menuItemsNode[i].src)
        /\ (MaxNodes = 5 /\ catalog = ScenarioA) =>
              /\ LabelsOf(menuItems) = ScenarioALabels
              /\ LabelsOf(menuItemsNode) = ScenarioALabels

\* C5 (as claimed): BuildTreeMenu emits an entry for a command if and only
\* if the command is runnable.
C5_EmittedIffRunnable ==
    tpc = "treeMenu" =>
        { treeMenu[i].src : i \in 1..Len(treeMenu) } = RunnableAvailable(catalog)

(***************************************************************************)
(* The search filter: SearchMenuModel.filterItems (tui/search_menu.go) and *)
(* FilterTreeMenu (tree menu)                                              *)
(***************************************************************************)
\* mutant: the empty query clears the list instead of restoring it
filterItems_EmptyClears(items, searchQuery) ==
    IF searchQuery = EmptyStr THEN <<>>
    ELSE SelectSeq(items, LAMBDA it :
            \/ Contains(ToLower(it.Label), ToLower(searchQuery))
            \/ Contains(ToLower(it.Description), ToLower(searchQuery))
            \/ Contains(ToLower(it.ID), ToLower(searchQuery)))

\* mutant: the loop starts at the second item
filterItems_SkipFirst(items, searchQuery) ==
    IF searchQuery = EmptyStr THEN items
    ELSE SelectSeq(IF items = <<>> THEN <<>> ELSE Tail(items), LAMBDA it :
            \/ Contains(ToLower(it.Label), ToLower(searchQuery))
            \/ Contains(ToLower(it.Description), ToLower(searchQuery))
            \/ Contains(ToLower(it.ID), ToLower(searchQuery)))

\* mutant: the ID is not matched
filterItems_NoID(items, searchQuery) ==
    IF searchQuery = EmptyStr THEN items
    ELSE SelectSeq(items, LAMBDA it :
            \/ Contains(ToLower(it.Label), ToLower(searchQuery))
            \/ Contains(ToLower(it.Description), ToLower(searchQuery)))

\* the loop of filterItems over items[i..], query already lower-cased
RECURSIVE filterItemsLoop(_, _, _)
filterItemsLoop(items, query, i) ==
    IF i > Len(items) THEN <<>>
    ELSE LET item == items[i]
             rest == filterItemsLoop(items, query, i + 1)
         IN IF Contains(ToLower(item.Label), query) THEN <<item>> \o rest
            ELSE IF Contains(ToLower(item.Description), query) THEN <<item>> \o rest
            ELSE IF Contains(ToLower(item.ID), query) THEN <<item>> \o rest
            ELSE rest

\* the value filterItems leaves in m.filteredItems
filterItems(items, searchQuery) ==
    IF searchQuery = EmptyStr THEN items
    ELSE filterItemsLoop(items, ToLower(searchQuery), 1)

RECURSIVE FilterTreeMenuLoop(_, _, _)
FilterTreeMenuLoop(items, query, i) ==
    IF i > Len(items) THEN <<>>
    ELSE LET item == items[i]
             rest == FilterTreeMenuLoop(items, query, i + 1)
         IN IF Contains(ToLower(item.Label), query) THEN <<item>> \o rest
            ELSE IF Contains(ToLower(item.Description), query) THEN <<item>> \o rest
            ELSE IF Contains(ToLower(item.Path), query) THEN <<item>> \o rest
            ELSE rest

FilterTreeMenu(items, query) ==
    IF query = EmptyStr THEN items
    ELSE FilterTreeMenuLoop(items, ToLower(query), 1)

\* TreeMenuItem.MenuItem: the embedded menu item
MenuItemOf(t) ==
    [ID |-> t.ID, Label |-> t.Label, Description |-> t.Description, Disabled |-> t.Disabled]

MenuItemsOf(list) == [i \in 1..Len(list) |-> MenuItemOf(list[i])]

(***************************************************************************)
(* Specification SpecFilter: an item list and a query are drawn, one of    *)
(* the two filters is applied, and then applied again to its own result.   *)
(***************************************************************************)
X == <<"x">>

ItemPool ==
    { [ID |-> X, Label |-> <<"A", "b">>, Description |-> EmptyStr, Path |-> X,
       Disabled |-> FALSE],
      [ID |-> X, Label |-> X, Description |-> <<"t", "A">>, Path |-> X,
       Disabled |-> FALSE],
      [ID |-> <<"a", "B">>, Label |-> X, Description |-> EmptyStr, Path |-> X,
       Disabled |-> TRUE],
      [ID |-> X, Label |-> X, Description |-> EmptyStr, Path |-> <<"x", SP, "A", "b">>,
       Disabled |-> FALSE],
      [ID |-> EmptyStr, Label |-> <<"T">>, Description |-> EmptyStr, Path |-> <<"T">>,
       Disabled |-> FALSE],
      [ID |-> X, Label |-> X, Description |-> X, Path |-> X, Disabled |-> FALSE] }

Queries == { EmptyStr, <<"a">>, <<"A">>, <<"a", "B">>, <<"t">>, <<"b", "x">> }

ItemLists == UNION { [1..n -> ItemPool] : n \in 0..MaxItems }

TreeIdle ==
    /\ catalog = <<>>
    /\ tpc = "off"
    /\ flat = <<>>
    /\ flatNode = <<>>
    /\ menuItems = <<>>
    /\ menuItemsNode = <<>>
    /\ treeMenu = <<>>

FilterInit ==
    /\ TreeIdle
    /\ SessIdle
    /\ fItems \in ItemLists
    /\ fQuery \in Queries
    /\ fpc = "init"
    /\ fOut = <<>>
    /\ fOut2 = <<>>

\* a SearchMenuModel over the items runs filterItems with the query
DoFilterItems ==
    /\ fpc = "init"
    /\ fpc' = "menu1"
    /\ fOut' = filterItems(MenuItemsOf(fItems), fQuery)
    /\ UNCHANGED <<fItems, fQuery, fOut2>>
    /\ UNCHANGED <<treeVars, sessVars>>

\* a SearchMenuModel over the filtered items runs filterItems with the query
DoFilterItemsAgain ==
    /\ fpc = "menu1"
    /\ fpc' = "menu2"
    /\ fOut2' = filterItems(fOut, fQuery)
    /\ UNCHANGED <<fItems, fQuery, fOut>>
    /\ UNCHANGED <<treeVars, sessVars>>

DoFilterTreeMenu ==
    /\ fpc = "init"
    /\ fpc' = "tree1"
    /\ fOut' = FilterTreeMenu(fItems, fQuery)
    /\ UNCHANGED <<fItems, fQuery, fOut2>>
    /\ UNCHANGED <<treeVars, sessVars>>

DoFilterTreeMenuAgain ==
    /\ fpc = "tree1"
    /\ fpc' = "tree2"
    /\ fOut2' = FilterTreeMenu(fOut, fQuery)
    /\ UNCHANGED <<fItems, fQuery, fOut>>
    /\ UNCHANGED <<treeVars, sessVars>>

FilterNext ==
    \/ DoFilterItems
    \/ DoFilterItemsAgain
    \/ DoFilterTreeMenu
    \/ DoFilterTreeMenuAgain

SpecFilter == FilterInit /\ [][FilterNext]_vars

\* C8: filtering with the empty query returns the item list unchanged, same
\* elements in the same order (filterItems and FilterTreeMenu).
C8_EmptyQueryIdentity ==
    (fQuery = EmptyStr) =>
        /\ fpc = "menu1" => fOut = MenuItemsOf(fItems)
        /\ fpc = "tree1" => fOut = fItems

C8_Witness ==
    /\ fQuery = EmptyStr
    /\ fpc \in {"menu1", "tree1"}
    /\ Len(fItems) = MaxItems
    /\ fItems[1] # fItems[2]
    /\ fOut[1] # fOut[2]

\* C9: filtering the filtered list again with the same query returns the
\* same list (filterItems and FilterTreeMenu).
C9_FilterIdempotent ==
    fpc \in {"menu2", "tree2"} => fOut2 = fOut

\* a non-empty query that kept some items and dropped others, filtered twice
C9_Witness ==
    /\ fpc \in {"menu2", "tree2"}
    /\ fQuery # EmptyStr
    /\ Len(fOut) >= 2
    /\ Len(fOut) < Len(fItems)

\* the query occurs in the field at some offset, letters compared without case
MatchesField(field, q) ==
    \E k \in 0..(Len(field) - Len(q)) :
        \A i \in 1..Len(q) : LowerChar(field[k + i]) = LowerChar(q[i])

MatchesItem(it, q) ==
    MatchesField(it.Label, q) \/ MatchesField(it.Description, q) \/ MatchesField(it.ID, q)

\* C10: for a non-empty query, filterItems keeps exactly the items whose
\* label, description or id contains the query case-insensitively, in their
\* order in the full list, each once.
C10_FilterIsMatchingSubsequence ==
    (fpc = "menu1" /\ fQuery # EmptyStr) =>
        fOut = SelectSeq(MenuItemsOf(fItems), LAMBDA it : MatchesItem(it, fQuery))

\* items kept through the id alone and through the description alone, with a
\* query that differs from them in case, and an item dropped
C10_Witness ==
    /\ fpc = "menu1"
    /\ fQuery = <<"A">>
    /\ Len(fOut) = 2
    /\ Len(fItems) = 3
    /\ \E i \in 1..2 : /\ ~MatchesField(fOut[i].Label, fQuery)
                       /\ ~MatchesField(fOut[i].Description, fQuery)
    /\ \E i \in 1..2 : /\ ~MatchesField(fOut[i].Label, fQuery)
                       /\ ~MatchesField(fOut[i].ID, fQuery)

(***************************************************************************)
(* The panel models of tui/default_renderer.go.  A model is a record with  *)
(* the fields of the Go struct; cursors count from 0 as in the source, so  *)
(* items[cursor] is written items[cursor + 1].                             *)
(***************************************************************************)
\* the key events explored (tea.KeyMsg.String())
Keys == {"ctrl+c", "q", "esc", "up", "down", "enter", "left", "right", "r",
         "backspace", "1"}

\* len(msg.String()) == 1
SingleChar(k) == k \in {"q", "k", "j", "h", "l", "e", "r", "1", "x", " ", "/", "a", "b", "t"}

TrueStr == <<"t", "r", "u", "e">>

FalseStr == <<"f", "a", "l", "s", "e">>

\* getTerminalSize(): the width and height every panel is created with
getTerminalSize == [width |-> 80, height |-> 24]

\* the tea.WindowSizeMsg values explored
WindowSizes == { [Width |-> 80, Height |-> 24], [Width |-> 40, Height |-> 12] }

\* panicked is not a field of the struct: it records that Update indexed
\* m.items out of range, which ends the program with a runtime panic
newMenuModel(items) ==
    [items |-> items, cursor |-> 0, cancelled |-> FALSE, quitting |-> FALSE,
     panicked |-> FALSE, width |-> getTerminalSize.width, height |-> getTerminalSize.height]

\* mutant: a resize redraws the menu from the top
menuResize_ResetsCursor(m, msg) ==
    [m EXCEPT !.width = msg.Width, !.height = msg.Height, !.cursor = 0]

\* menuModel.Update on a tea.WindowSizeMsg
menuResize(m, msg) == [m EXCEPT !.width = msg.Width, !.height = msg.Height]

\* menuModel.Update on a tea.KeyMsg
menuUpdate(m, k) ==
    CASE k \in {"ctrl+c", "q", "esc"} ->
            [m EXCEPT !.quitting = TRUE, !.cancelled = TRUE]
      [] k \in {"up", "k"} ->
            IF m.cursor > 0 THEN [m EXCEPT !.cursor = m.cursor - 1] ELSE m
      [] k \in {"down", "j"} ->
            IF m.cursor < Len(m.items) - 1 THEN [m EXCEPT !.cursor = m.cursor + 1] ELSE m
      [] k \in {"enter", " "} ->
            IF m.cursor >= Len(m.items) THEN [m EXCEPT !.panicked = TRUE]
            ELSE IF ~m.items[m.cursor + 1].Disabled THEN [m EXCEPT !.quitting = TRUE]
            ELSE m
      [] OTHER -> m

\* what RenderCommandMenu returns once the program has ended
RenderCommandMenuResult(m) == IF m.cancelled THEN -1 ELSE m.cursor

ItemNames(items) == { items[i].Name : i \in 1..Len(items) }

\* values[item.Name] = item.DefaultValue, in item order
newFormValues(items) ==
    [nm \in ItemNames(items) |->
        LET last == CHOOSE i \in 1..Len(items) :
                        /\ items[i].Name = nm
                        /\ \A j \in (i + 1)..Len(items) : items[j].Name # nm
        IN items[last].DefaultValue]

newFormModel(items) ==
    [items |-> items, cursor |-> 0, values |-> newFormValues(items),
     cancelled |-> FALSE, quitting |-> FALSE, editMode |-> FALSE, editBuffer |-> EmptyStr,
     width |-> getTerminalSize.width, height |-> getTerminalSize.height]

\* formModel.Update on a tea.WindowSizeMsg
formResize(m, msg) == [m EXCEPT !.width = msg.Width, !.height = msg.Height]

\* mutant: a toggle key sets the bool to "true" whatever it was
handleNavKey_ToggleSetsTrue(m, k) ==
    LET item == m.items[m.cursor + 1]
    IN CASE k \in {"ctrl+c", "q", "esc"} ->
               [m EXCEPT !.quitting = TRUE, !.cancelled = TRUE]
         [] k \in {"up", "shift+tab"} ->
               IF m.cursor > 0 THEN [m EXCEPT !.cursor = m.cursor - 1] ELSE m
         [] k \in {"down", "tab"} ->
               IF m.cursor < Len(m.items) - 1 THEN [m EXCEPT !.cursor = m.cursor + 1] ELSE m
         [] k \in {"enter", " "} ->
               [m EXCEPT !.quitting = TRUE]
         [] k \in {"left", "right"} ->
               IF item.Type = "bool" THEN [m EXCEPT !.values[item.Name] = TrueStr] ELSE m
         [] k \in {"e", "r"} ->
               IF item.Type # "bool"
               THEN [m EXCEPT !.editMode = TRUE, !.editBuffer = m.values[item.Name]]
               ELSE m
         [] OTHER -> m

\* mutant: the edit keys open a bool parameter for editing too
handleNavKey_EditsBool(m, k) ==
    LET item == m.items[m.cursor + 1]
    IN CASE k \in {"ctrl+c", "q", "esc"} ->
               [m EXCEPT !.quitting = TRUE, !.cancelled = TRUE]
         [] k \in {"up", "shift+tab"} ->
               IF m.cursor > 0 THEN [m EXCEPT !.cursor = m.cursor - 1] ELSE m
         [] k \in {"down", "tab"} ->
               IF m.cursor < Len(m.items) - 1 THEN [m EXCEPT !.cursor = m.cursor + 1] ELSE m
         [] k \in {"enter", " "} ->
               [m EXCEPT !.quitting = TRUE]
         [] k \in {"left", "right"} ->
               IF item.Type = "bool"
               THEN IF m.values[item.Name] = TrueStr
                    THEN [m EXCEPT !.values[item.Name] = FalseStr]
                    ELSE [m EXCEPT !.values[item.Name] = TrueStr]
               ELSE m
         [] k \in {"e", "r"} ->
               [m EXCEPT !.editMode = TRUE, !.editBuffer = m.values[item.Name]]
         [] OTHER -> m

handleNavKey(m, k) ==
    LET item == m.items[m.cursor + 1]
    IN CASE k \in {"ctrl+c", "q", "esc"} ->
               [m EXCEPT !.quitting = TRUE, !.cancelled = TRUE]
         [] k \in {"up", "shift+tab"} ->
               IF m.cursor > 0 THEN [m EXCEPT !.cursor = m.cursor - 1] ELSE m
         [] k \in {"down", "tab"} ->
               IF m.cursor < Len(m.items) - 1 THEN [m EXCEPT !.cursor = m.cursor + 1] ELSE m
         [] k \in {"enter", " "} ->
               [m EXCEPT !.quitting = TRUE]
         [] k \in {"left", "right"} ->
               IF item.Type = "bool"
               THEN IF m.values[item.Name] = TrueStr
                    THEN [m EXCEPT !.values[item.Name] = FalseStr]
                    ELSE [m EXCEPT !.values[item.Name] = TrueStr]
               ELSE m
         [] k \in {"e", "r"} ->
               IF item.Type # "bool"
               THEN [m EXCEPT !.editMode = TRUE, !.editBuffer = m.values[item.Name]]
               ELSE m
         [] OTHER -> m

\* mutant: Esc leaves edit mode with the buffer committed
handleEditKey_EscCommits(m, k) ==
    LET item == m.items[m.cursor + 1]
    IN CASE k \in {"enter", "esc"} ->
               [m EXCEPT !.values[item.Name] = m.editBuffer, !.editMode = FALSE]
         [] k = "backspace" ->
               IF Len(m.editBuffer) > 0
               THEN [m EXCEPT !.editBuffer = SubSeq(m.editBuffer, 1, Len(m.editBuffer) - 1)]
               ELSE m
         [] OTHER ->
               IF SingleChar(k) THEN [m EXCEPT !.editBuffer = Append(m.editBuffer, k)] ELSE m

\* mutant: Enter commits the buffer into the first item of the form
handleEditKey_CommitsFirstItem(m, k) ==
    CASE k = "enter" ->
            [m EXCEPT !.values[m.items[1].Name] = m.editBuffer, !.editMode = FALSE]
      [] k = "esc" ->
            [m EXCEPT !.editMode = FALSE]
      [] k = "backspace" ->
            IF Len(m.editBuffer) > 0
            THEN [m EXCEPT !.editBuffer = SubSeq(m.editBuffer, 1, Len(m.editBuffer) - 1)]
            ELSE m
      [] OTHER ->
            IF SingleChar(k) THEN [m EXCEPT !.editBuffer = Append(m.editBuffer, k)] ELSE m

handleEditKey(m, k) ==
    LET item == m.items[m.cursor + 1]
    IN CASE k = "enter" ->
               [m EXCEPT !.values[item.Name] = m.editBuffer, !.editMode = FALSE]
         [] k = "esc" ->
               [m EXCEPT !.editMode = FALSE]
         [] k = "backspace" ->
               IF Len(m.editBuffer) > 0
               THEN [m EXCEPT !.editBuffer = SubSeq(m.editBuffer, 1, Len(m.editBuffer) - 1)]
               ELSE m
         [] OTHER ->
               IF SingleChar(k) THEN [m EXCEPT !.editBuffer = Append(m.editBuffer, k)] ELSE m

\* formModel.Update on a tea.KeyMsg
formUpdate(m, k) == IF m.editMode THEN handleEditKey(m, k) ELSE handleNavKey(m, k)

\* nil map
NilValues == <<>>

\* what RenderFlagForm returns once the program has ended
RenderFlagFormResult(m) == IF m.cancelled THEN NilValues ELSE m.values

newConfirmModel ==
    [cursor |-> 0, confirmed |-> FALSE, cancelled |-> FALSE, quitting |-> FALSE,
     width |-> getTerminalSize.width, height |-> getTerminalSize.height]

\* confirmModel.Update on a tea.WindowSizeMsg
confirmResize(m, msg) == [m EXCEPT !.width = msg.Width, !.height = msg.Height]

\* mutant: Enter confirms wherever the cursor is
confirmUpdate_EnterAlwaysConfirms(m, k) ==
    CASE k \in {"ctrl+c", "q", "esc"} ->
            [m EXCEPT !.quitting = TRUE, !.cancelled = TRUE]
      [] k \in {"left", "h"} ->
            IF m.cursor > 0 THEN [m EXCEPT !.cursor = m.cursor - 1] ELSE m
      [] k \in {"right", "l"} ->
            IF m.cursor < 1 THEN [m EXCEPT !.cursor = m.cursor + 1] ELSE m
      [] k \in {"enter", " "} ->
            [m EXCEPT !.quitting = TRUE, !.confirmed = TRUE]
      [] OTHER -> m

\* confirmModel.Update on a tea.KeyMsg
confirmUpdate(m, k) ==
    CASE k \in {"ctrl+c", "q", "esc"} ->
            [m EXCEPT !.quitting = TRUE, !.cancelled = TRUE]
      [] k \in {"left", "h"} ->
            IF m.cursor > 0 THEN [m EXCEPT !.cursor = m.cursor - 1] ELSE m
      [] k \in {"right", "l"} ->
            IF m.cursor < 1 THEN [m EXCEPT !.cursor = m.cursor + 1] ELSE m
      [] k \in {"enter", " "} ->
            [m EXCEPT !.quitting = TRUE, !.confirmed = (m.cursor = 0)]
      [] OTHER -> m

\* what RenderConfirmation returns once the program has ended
RenderConfirmationResult(m) == m.confirmed

\* FlagItem.Validator: nil, or a function that returns an error for some values
ValidatorAccepts(validator, value) ==
    CASE validator = "nil" -> TRUE
      [] validator = "nonempty" -> value # EmptyStr
      [] validator = "digits" ->
            value # EmptyStr /\ \A i \in 1..Len(value) : value[i] = "1"

(***************************************************************************)
(* The search menu: SearchMenuModel (tui/search_menu.go)                   *)
(***************************************************************************)
\* longest search query typed into a search menu
MaxQuery == 2

NewSearchMenuModel(items) ==
    [items |-> items, filteredItems |-> items, cursor |-> 0,
     searchQuery |-> EmptyStr, searchCursor |-> 0, searchMode |-> FALSE,
     cancelled |-> FALSE, quitting |-> FALSE,
     width |-> getTerminalSize.width, height |-> getTerminalSize.height]

\* SearchMenuModel.Update on a tea.WindowSizeMsg
searchResize(m, msg) == [m EXCEPT !.width = msg.Width, !.height = msg.Height]

\* mutant: the list is filtered but the cursor is left where it was
searchFilterItems_KeepCursor(m) ==
    [m EXCEPT !.filteredItems = filterItems(m.items, m.searchQuery)]

\* mutant: the list is the previous list filtered again, not the full list
searchFilterItems_Incremental(m) ==
    [m EXCEPT !.filteredItems = filterItems(m.filteredItems, m.searchQuery),
              !.cursor = 0]

\* m.filterItems(): both branches leave the cursor at 0
searchFilterItems(m) ==
    [m EXCEPT !.filteredItems = filterItems(m.items, m.searchQuery), !.cursor = 0]

\* mutant: esc leaves search mode but keeps the query and the filtered list
handleSearchKey_EscKeepsFilter(m, k) ==
    CASE k \in {"ctrl+c", "q"} ->
            [m EXCEPT !.quitting = TRUE, !.cancelled = TRUE]
      [] k = "esc" ->
            [m EXCEPT !.searchMode = FALSE]
      [] k = "enter" ->
            IF Len(m.filteredItems) > 0 THEN [m EXCEPT !.quitting = TRUE] ELSE m
      [] k = "backspace" ->
            IF Len(m.searchQuery) > 0
            THEN searchFilterItems(
                    [m EXCEPT !.searchQuery = SubSeq(m.searchQuery, 1, Len(m.searchQuery) - 1),
                              !.searchCursor = IF m.searchCursor - 1 < 0 THEN 0
                                               ELSE m.searchCursor - 1])
            ELSE m
      [] k = "ctrl+u" ->
            searchFilterItems([m EXCEPT !.searchQuery = EmptyStr, !.searchCursor = 0])
      [] k \in {"up", "k"} ->
            IF m.cursor > 0 THEN [m EXCEPT !.cursor = m.cursor - 1] ELSE m
      [] k \in {"down", "j"} ->
            IF m.cursor < Len(m.filteredItems) - 1 THEN [m EXCEPT !.cursor = m.cursor + 1]
            ELSE m
      [] OTHER ->
            IF SingleChar(k)
            THEN searchFilterItems(
                    [m EXCEPT !.searchQuery = Append(m.searchQuery, k),
                              !.searchCursor = m.searchCursor + 1])
            ELSE m

\* SearchMenuModel.handleSearchKey
handleSearchKey(m, k) ==
    CASE k \in {"ctrl+c", "q"} ->
            [m EXCEPT !.quitting = TRUE, !.cancelled = TRUE]
      [] k = "esc" ->
            [m EXCEPT !.searchMode = FALSE, !.searchQuery = EmptyStr,
                      !.searchCursor = 0, !.filteredItems = m.items, !.cursor = 0]
      [] k = "enter" ->
            IF Len(m.filteredItems) > 0 THEN [m EXCEPT !.quitting = TRUE] ELSE m
      [] k = "backspace" ->
            IF Len(m.searchQuery) > 0
            THEN searchFilterItems(
                    [m EXCEPT !.searchQuery = SubSeq(m.searchQuery, 1, Len(m.searchQuery) - 1),
                              !.searchCursor = IF m.searchCursor - 1 < 0 THEN 0
                                               ELSE m.searchCursor - 1])
            ELSE m
      [] k = "ctrl+u" ->
            searchFilterItems([m EXCEPT !.searchQuery = EmptyStr, !.searchCursor = 0])
      [] k \in {"up", "k"} ->
            IF m.cursor > 0 THEN [m EXCEPT !.cursor = m.cursor - 1] ELSE m
      [] k \in {"down", "j"} ->
            IF m.cursor < Len(m.filteredItems) - 1 THEN [m EXCEPT !.cursor = m.cursor + 1]
            ELSE m
      [] OTHER ->
            IF SingleChar(k)
            THEN searchFilterItems(
                    [m EXCEPT !.searchQuery = Append(m.searchQuery, k),
                              !.searchCursor = m.searchCursor + 1])
            ELSE m

\* SearchMenuModel.handleNavKey
searchHandleNavKey(m, k) ==
    CASE k \in {"ctrl+c", "q", "esc"} ->
            [m EXCEPT !.quitting = TRUE, !.cancelled = TRUE]
      [] k \in {"up", "k"} ->
            IF m.cursor > 0 THEN [m EXCEPT !.cursor = m.cursor - 1] ELSE m
      [] k \in {"down", "j"} ->
            IF m.cursor < Len(m.filteredItems) - 1 THEN [m EXCEPT !.cursor = m.cursor + 1]
            ELSE m
      [] k \in {"enter", " "} ->
            IF Len(m.filteredItems) > 0 /\ ~m.filteredItems[m.cursor + 1].Disabled
            THEN [m EXCEPT !.quitting = TRUE]
            ELSE m
      [] k \in {"/", "ctrl+s"} ->
            [m EXCEPT !.searchMode = TRUE]
      [] k = "ctrl+r" ->
            [m EXCEPT !.searchQuery = EmptyStr, !.filteredItems = m.items, !.cursor = 0]
      [] OTHER -> m

\* mutant: Update sends every key to handleNavKey, in search mode too
searchUpdate_NavOnly(m, k) == searchHandleNavKey(m, k)

\* SearchMenuModel.Update on a tea.KeyMsg
searchUpdate(m, k) ==
    IF m.searchMode THEN handleSearchKey(m, k) ELSE searchHandleNavKey(m, k)

\* the key events explored on a search menu
SearchKeys == {"ctrl+c", "q", "esc", "enter", "backspace", "ctrl+u", "ctrl+r",
               "up", "down", "/", "a", "t"}

\* the model explores search queries of at most MaxQuery characters
WithinQuery(m, k) ==
    ~(m.searchMode /\ SingleChar(k) /\ k \notin {"q", "k", "j"}
        /\ Len(m.searchQuery) >= MaxQuery)

(***************************************************************************)
(* Specification SpecForm: RenderFlagForm is called with a list of         *)
(* FlagItems and key events are delivered to the formModel.  Update has no *)
(* test of quitting, and the program's quit message is queued behind keys  *)
(* already read, so keys may still arrive once the model is quitting.      *)
(***************************************************************************)
FlagItem(name, type, def, validator) ==
    [Name |-> name, Type |-> type, DefaultValue |-> def, CurrentValue |-> def,
     Validator |-> validator]

FormItemLists ==
    { << FlagItem(<<"p">>, "string", <<"1">>, "digits"),
         FlagItem(<<"v">>, "bool", FalseStr, "nil") >>,
      << FlagItem(<<"v">>, "bool", TrueStr, "nil"),
         FlagItem(<<"n">>, "int", <<"1">>, "nil") >>,
      << FlagItem(<<"p">>, "string", EmptyStr, "nonempty") >>,
      << FlagItem(<<"p">>, "string", <<"q">>, "nil"),
         FlagItem(<<"s">>, "string", <<"1">>, "digits") >> }

\* the model explores edit buffers of at most MaxBuf characters
WithinBuf(m, k) == ~(m.editMode /\ SingleChar(k) /\ Len(m.editBuffer) >= MaxBuf)

\* the history of a form that has just been opened
newFormHistory(m) ==
    [touched |-> {}, entry |-> m.values, run |-> 0, runStart |-> NoHist,
     escaped |-> FALSE]

\* the history after key k was delivered to the form m.
\*   touched   the names whose item was under the cursor when a toggle key
\*             was pressed on it (bool) or an edit key (any other type)
\*   entry     values as it was when edit mode was last entered
\*   run       how many toggle keys have just been pressed in a row on a
\*             bool item: 0, 1 or 2 (a third starts a new run)
\*   runStart  values as it was before that run
\*   escaped   the key was Esc and the form was in Editing
formHistory(h, m, k) ==
    IF h = NoHist THEN NoHist
    ELSE LET item == m.items[m.cursor + 1]
             toggle == ~m.editMode /\ k \in {"left", "right"} /\ item.Type = "bool"
             edit == ~m.editMode /\ k \in {"e", "r"} /\ item.Type # "bool"
         IN [touched |-> IF toggle \/ edit THEN h.touched \cup {item.Name} ELSE h.touched,
             entry |-> IF ~m.editMode THEN m.values ELSE h.entry,
             run |-> IF toggle THEN (IF h.run = 1 THEN 2 ELSE 1) ELSE 0,
             runStart |-> IF toggle THEN (IF h.run = 1 THEN h.runStart ELSE m.values)
                          ELSE NoHist,
             escaped |-> m.editMode /\ k = "esc"]

FormInit ==
    /\ TreeIdle
    /\ FilterIdle
    /\ sess = [pc |-> "form"]
    /\ menu = NoPanel
    /\ confirm = NoPanel
    /\ search = NoPanel
    /\ collect = [pc |-> "off"]
    /\ call = NoCall
    /\ \E items \in FormItemLists :
          /\ form = newFormModel(items)
          /\ hist = newFormHistory(form)

\* formModel.Update(tea.KeyMsg)
FormKey ==
    /\ sess.pc = "form"
    /\ \E k \in Keys :
          /\ WithinBuf(form, k)
          /\ form' = formUpdate(form, k)
          /\ hist' = formHistory(hist, form, k)
    /\ UNCHANGED <<sess, menu, confirm, search, collect, call>>
    /\ UNCHANGED <<treeVars, filterVars>>

FormNext == FormKey

SpecForm == FormInit /\ [][FormNext]_vars

\* C3 (as claimed): Enter in Editing commits the buffer only if the
\* parameter's Validator accepts it; on rejection the form stays in Editing
\* and values is unchanged.
C3_RejectedCommitKeepsValue ==
    [][ (form.editMode /\ form' = formUpdate(form, "enter")
           /\ ~ValidatorAccepts(form.items[form.cursor + 1].Validator, form.editBuffer))
        => (form'.editMode /\ form'.values = form.values) ]_vars

(***************************************************************************)
(* The embedded Command flow (package cobra, Command.executeTUI).          *)
(* A session catalog is a catalog with, for every command, its local flag  *)
(* declarations in VisitAll order, and the TUIConfig of the root command.  *)
(***************************************************************************)
Flag(name, type, def) ==
    [Name |-> name, Type |-> type, DefValue |-> def, Value |-> def, Changed |-> FALSE]

TuiName == <<"t", "u", "i">>

TuiThemeName == <<"t", "u", "i", "-", "t", "h", "e", "m", "e">>

\* initTUIFlags: the flags the engine adds to the root command
TuiConfirmName == <<"t", "u", "i", "-", "c", "o", "n", "f", "i", "r", "m">>

TuiFlagsName == <<"t", "u", "i", "-", "f", "l", "a", "g", "s">>

TuiFlags ==
    << Flag(TuiName, "bool", FalseStr),
       Flag(TuiConfirmName, "bool", TrueStr),
       Flag(TuiFlagsName, "bool", TrueStr),
       Flag(TuiThemeName, "string", <<"d", "e", "f", "a", "u", "l", "t">>) >>

\* every sub-command declares p; the root declares v
LayoutA == [n \in Nodes |->
              IF n = Root THEN TuiFlags \o << Flag(<<"v">>, "bool", FalseStr) >>
              ELSE << Flag(<<"p">>, "string", <<"1">>) >>]

\* n is an int on the sub-commands and a string on the root
LayoutB == [n \in Nodes |->
              IF n = Root THEN << Flag(<<"n">>, "string", <<"q">>) >> \o TuiFlags
              ELSE << Flag(<<"n">>, "int", <<"1">>) >>]

\* no flags but the engine's own
LayoutC == [n \in Nodes |-> IF n = Root THEN TuiFlags ELSE <<>>]

Layouts == {LayoutA, LayoutB, LayoutC}

ShapeChain == [n \in Nodes |-> n - 1]

ShapeBush == [n \in Nodes |-> IF n = Root THEN 0 ELSE Root]

ShapeHeap == [n \in Nodes |-> n \div 2]

SessionShapes == {ShapeChain, ShapeBush, ShapeHeap}

KindsAllRun == [n \in Nodes |-> "run"]

KindsMixed == [n \in Nodes |-> IF n = 3 THEN "hidden" ELSE IF n % 2 = 0 THEN "group" ELSE "run"]

SessionCatalogs ==
    { [parent |-> p, run |-> [n \in Nodes |-> k[n] = "run"],
       listed |-> [n \in Nodes |-> n = Root \/ k[n] # "hidden"], use |-> UseDistinct,
       flags |-> fl,
       tuiConfig |-> [ShowFlags |-> sf, ConfirmBeforeExecute |-> cb]] :
        p \in SessionShapes, k \in {KindsAllRun, KindsMixed}, fl \in Layouts,
        sf \in BOOLEAN, cb \in BOOLEAN }

\* getChildren: the children for which IsAvailableCommand holds
getChildren(c, cmd) == SelectSeq(Commands(c, cmd), LAMBDA m : c.listed[m])

\* the menu navigateCommandTree builds for the children
NavMenuItems(c, children) ==
    [i \in 1..Len(children) |->
        [ID |-> c.use[children[i]], Label |-> c.use[children[i]],
         Description |-> EmptyStr, Disabled |-> ~c.listed[children[i]]]]

\* the switch on flag.Value.Type()
FlagTypeOf(t) ==
    CASE t = "bool" -> "bool"
      [] t \in {"int", "int32", "int64"} -> "int"
      [] t = "duration" -> "duration"
      [] OTHER -> "string"

\* mutant: the callback does not consult seen
RECURSIVE collectScope_NoSeen(_, _, _)
collectScope_NoSeen(items, fl, i) ==
    IF i > Len(fl) THEN items
    ELSE LET flag == fl[i]
             skip == \/ HasPrefix(flag.Name, <<"t", "u", "i", "-">>)
                     \/ flag.Name = TuiName
             item == [Name |-> flag.Name, Type |-> FlagTypeOf(flag.Type),
                      DefaultValue |-> flag.DefValue, CurrentValue |-> flag.DefValue,
                      Validator |-> "nil"]
         IN collectScope_NoSeen(IF skip THEN items ELSE Append(items, item), fl, i + 1)

\* the VisitAll callback of collectFlagItems over the flags fl[i..] of a scope
RECURSIVE collectScope(_, _, _)
collectScope(items, fl, i) ==
    IF i > Len(fl) THEN items
    ELSE LET flag == fl[i]
             skip == \/ HasPrefix(flag.Name, <<"t", "u", "i", "-">>)
                     \/ flag.Name = TuiName
                     \/ flag.Name \in ItemNames(items)      \* seen[flag.Name]
             item == [Name |-> flag.Name, Type |-> FlagTypeOf(flag.Type),
                      DefaultValue |-> flag.DefValue, CurrentValue |-> flag.DefValue,
                      Validator |-> "nil"]
         IN collectScope(IF skip THEN items ELSE Append(items, item), fl, i + 1)

\* mutant: the scopes are visited from the root down to current
RECURSIVE collectFrom_RootFirst(_, _, _, _)
collectFrom_RootFirst(c, flags, current, items) ==
    IF c.parent[current] = 0 THEN collectScope(items, flags[current], 1)
    ELSE collectScope(collectFrom_RootFirst(c, flags, c.parent[current], items),
                      flags[current], 1)

\* the loop of collectFlagItems from current up to the root
RECURSIVE collectFrom(_, _, _, _)
collectFrom(c, flags, current, items) ==
    LET here == collectScope(items, flags[current], 1)
    IN IF c.parent[current] = 0 THEN here
       ELSE collectFrom(c, flags, c.parent[current], here)

collectFlagItems(c, flags, cmd) == collectFrom(c, flags, cmd, <<>>)

IsDigit(ch) == ch \in {"0", "1", "2", "3", "4", "5", "6", "7", "8", "9"}

\* flag.Value.Set succeeds (pflag: strconv.ParseBool, strconv.ParseInt, any string)
SetAccepts(type, value) ==
    CASE type = "bool" ->
            value \in {TrueStr, FalseStr, <<"1">>, <<"0">>, <<"t">>, <<"f">>, <<"T">>, <<"F">>}
      [] type \in {"int", "int32", "int64"} ->
            value # EmptyStr /\ \A i \in 1..Len(value) : IsDigit(value[i])
      [] OTHER -> TRUE

\* the value the flag holds after a successful Set
SetValue(type, value) ==
    IF type = "bool"
    THEN (IF value \in {TrueStr, <<"1">>, <<"t">>, <<"T">>} THEN TrueStr ELSE FalseStr)
    ELSE value

\* LocalFlags().Lookup(name): the index of the flag in the scope, 0 for nil
Lookup(fl, name) ==
    IF \E i \in 1..Len(fl) : fl[i].Name = name
    THEN CHOOSE i \in 1..Len(fl) : fl[i].Name = name
    ELSE 0

\* the inner loop of applyFlagValues in one scope, over the names order[i..]
RECURSIVE applyScope(_, _, _, _, _)
applyScope(flags, current, values, order, i) ==
    IF i > Len(order) THEN [flags |-> flags, err |-> FALSE]
    ELSE LET name == order[i]
             j == Lookup(flags[current], name)
         IN IF j = 0 THEN applyScope(flags, current, values, order, i + 1)
            ELSE IF ~SetAccepts(flags[current][j].Type, values[name])
                 THEN [flags |-> flags, err |-> TRUE]
                 ELSE applyScope(
                        [flags EXCEPT ![current][j].Value =
                                          SetValue(flags[current][j].Type, values[name]),
                                      ![current][j].Changed = TRUE],
                        current, values, order, i + 1)

\* the outer loop of applyFlagValues from current up to the root
RECURSIVE applyFrom(_, _, _, _, _)
applyFrom(c, flags, current, values, order) ==
    LET here == applyScope(flags, current, values, order, 1)
    IN IF here.err \/ c.parent[current] = 0 THEN here
       ELSE applyFrom(c, here.flags, c.parent[current], values, order)

\* order is the order in which range visits the map (Go leaves it unspecified)
applyFlagValues(c, flags, cmd, values, order) == applyFrom(c, flags, cmd, values, order)

\* the orders in which a range over the map may visit its keys
RangeOrders(values) ==
    { o \in [1..Cardinality(DOMAIN values) -> DOMAIN values] :
        \A i, j \in DOMAIN o : i # j => o[i] # o[j] }

(***************************************************************************)
(* executeTUI as steps between the renderer calls it blocks in.  A step    *)
(* takes the session world w = [sess, menu, form, confirm] to the world at *)
(* the next Render call, or at the return of executeTUI.                   *)
(*   sess.pc           "start", "menu", "form", "confirm" or "done"        *)
(*   sess.cmd, .path   the arguments of the running navigateCommandTree    *)
(*   sess.selectedPath the path navigateCommandTree returned               *)
(*   sess.flags        the pflag state of every command                    *)
(*   sess.executed     the commands handed to executeCommand               *)
(*   sess.menus, .forms, .confirms, .cleanups  how often each was called   *)
(*   sess.err          what executeTUI returned                            *)
(***************************************************************************)
\* mutant: Cleanup is called on the success paths only
finish_NoCleanupOnError(w, err) ==
    [w EXCEPT !.sess.pc = "done", !.sess.err = err,
              !.sess.cleanups = IF err = "nil" THEN @ + 1 ELSE @]

\* the deferred renderer.Cleanup() and the return of executeTUI
finish(w, err) ==
    [w EXCEPT !.sess.pc = "done", !.sess.err = err, !.sess.cleanups = @ + 1]

SelectedCmd(path) == path[Len(path)]

\* executeCommand on the selected command
executeStage(w) ==
    finish([w EXCEPT !.sess.executed = Append(@, SelectedCmd(w.sess.selectedPath))], "nil")

\* executeTUI from "if c.tuiConfig.ConfirmBeforeExecute"
confirmStage(c, w) ==
    IF c.tuiConfig.ConfirmBeforeExecute
    THEN [w EXCEPT !.sess.pc = "confirm", !.sess.confirms = @ + 1,
                   !.confirm = newConfirmModel]
    ELSE executeStage(w)

\* executeTUI from the return of configureFlags
afterConfigureFlags(c, w, flagValues, order) ==
    LET r == applyFlagValues(c, w.sess.flags, SelectedCmd(w.sess.selectedPath),
                             flagValues, order)
        w2 == [w EXCEPT !.sess.flags = r.flags]
    IN IF r.err THEN finish(w2, "set") ELSE confirmStage(c, w2)

\* executeTUI from the return of navigateCommandTree with a path
flagsStage(c, w) ==
    IF c.tuiConfig.ShowFlags
    THEN LET flagItems == collectFlagItems(c, w.sess.flags, SelectedCmd(w.sess.selectedPath))
         IN IF Len(flagItems) = 0
            THEN afterConfigureFlags(c, w, NilValues, <<>>)
            ELSE [w EXCEPT !.sess.pc = "form", !.sess.forms = @ + 1,
                           !.form = newFormModel(flagItems)]
    ELSE confirmStage(c, w)

\* executeTUI from the return of navigateCommandTree
afterNavigate(c, w, selectedPath) ==
    LET w2 == [w EXCEPT !.sess.selectedPath = selectedPath]
    IN IF Len(selectedPath) = 0 THEN finish(w2, "nil") ELSE flagsStage(c, w2)

\* navigateCommandTree(cmd, path) up to its RenderCommandMenu call
navigateCommandTree(c, w, cmd, path) ==
    LET children == getChildren(c, cmd)
    IN IF Len(children) = 0
       THEN afterNavigate(c, w, Append(path, cmd))
       ELSE [w EXCEPT !.sess.pc = "menu", !.sess.cmd = cmd, !.sess.path = path,
                      !.sess.menus = @ + 1,
                      !.menu = newMenuModel(NavMenuItems(c, children))]

\* mutant: a cancelled menu returns the path walked so far
navigateCancelled_PartialPath(path, cmd) == Append(path, cmd)

\* what navigateCommandTree returns when the menu was cancelled: nil
navigateCancelled(path, cmd) == <<>>

\* navigateCommandTree from the return of RenderCommandMenu
afterMenu(c, w) ==
    LET selectedIndex == RenderCommandMenuResult(w.menu)
        children == getChildren(c, w.sess.cmd)
    IN IF selectedIndex < 0
       THEN afterNavigate(c, w, navigateCancelled(w.sess.path, w.sess.cmd))
       ELSE navigateCommandTree(c, w, children[selectedIndex + 1],
                                Append(w.sess.path, w.sess.cmd))

World == [sess |-> sess, menu |-> menu, form |-> form, confirm |-> confirm]

SetWorld(w) ==
    /\ sess' = w.sess
    /\ menu' = w.menu
    /\ form' = w.form
    /\ confirm' = w.confirm
    /\ UNCHANGED auxVars

(***************************************************************************)
(* Specification SpecSession: one run of executeTUI on a session catalog   *)
(***************************************************************************)
SessInit ==
    /\ FilterIdle
    /\ catalog \in SessionCatalogs
    /\ tpc = "off"
    /\ flat = <<>>
    /\ flatNode = <<>>
    /\ menuItems = <<>>
    /\ menuItemsNode = <<>>
    /\ treeMenu = <<>>
    /\ sess = [pc |-> "start", cmd |-> Root, path |-> <<>>, selectedPath |-> <<>>,
               flags |-> catalog.flags, executed |-> <<>>,
               menus |-> 0, forms |-> 0, confirms |-> 0, cleanups |-> 0, err |-> "none"]
    /\ menu = NoPanel
    /\ form = NoPanel
    /\ confirm = NoPanel
    /\ AuxIdle

\* executeTUI is entered
ExecuteTUI ==
    /\ sess.pc = "start"
    /\ SetWorld(navigateCommandTree(catalog, World, Root, <<>>))
    /\ UNCHANGED <<treeVars, filterVars>>

\* menuModel.Update(tea.KeyMsg)
MenuKey ==
    /\ sess.pc = "menu"
    /\ ~menu.panicked
    /\ \E k \in Keys : menu' = menuUpdate(menu, k)
    /\ UNCHANGED <<sess, form, confirm, auxVars>>
    /\ UNCHANGED <<treeVars, filterVars>>

\* the menu program ends and RenderCommandMenu returns
MenuReturn ==
    /\ sess.pc = "menu"
    /\ menu.quitting
    /\ SetWorld(afterMenu(catalog, World))
    /\ UNCHANGED <<treeVars, filterVars>>

\* the form program ends and RenderFlagForm returns
FormReturn ==
    /\ sess.pc = "form"
    /\ form.quitting
    /\ \E order \in RangeOrders(RenderFlagFormResult(form)) :
          SetWorld(afterConfigureFlags(catalog, World, RenderFlagFormResult(form), order))
    /\ UNCHANGED <<treeVars, filterVars>>

\* confirmModel.Update(tea.KeyMsg)
ConfirmKey ==
    /\ sess.pc = "confirm"
    /\ \E k \in Keys : confirm' = confirmUpdate(confirm, k)
    /\ UNCHANGED <<sess, menu, form, auxVars>>
    /\ UNCHANGED <<treeVars, filterVars>>

\* the confirmation program ends and RenderConfirmation returns
ConfirmReturn ==
    /\ sess.pc = "confirm"
    /\ confirm.quitting
    /\ SetWorld(IF RenderConfirmationResult(confirm) THEN executeStage(World)
                                                      ELSE finish(World, "nil"))
    /\ UNCHANGED <<treeVars, filterVars>>

\* a tea.Program fails: the Render call returns an error
RenderError ==
    /\ sess.pc \in {"menu", "form", "confirm"}
    /\ SetWorld(finish(World, "render"))
    /\ UNCHANGED <<treeVars, filterVars>>

SessNext ==
    \/ ExecuteTUI
    \/ MenuKey
    \/ MenuReturn
    \/ FormKey
    \/ FormReturn
    \/ ConfirmKey
    \/ ConfirmReturn
    \/ RenderError

SpecSession == SessInit /\ [][SessNext]_vars

(***************************************************************************)
(* C1: as soon as a stage of the session reports cancellation no later     *)
(* stage runs: after a cancelled menu there is no form, no confirmation    *)
(* and no execution; after a cancelled parameter form the confirmation is  *)
(* not shown and the selected command is not executed; after a declined    *)
(* confirmation the command is not executed.                               *)
(***************************************************************************)
MenuCancelled == menu # NoPanel /\ menu.cancelled /\ sess.pc # "menu"

FormCancelled == form # NoPanel /\ form.cancelled /\ sess.pc # "form"

ConfirmDeclined == confirm # NoPanel /\ ~confirm.confirmed /\ sess.pc # "confirm"

C1_CancelStopsLaterStages ==
    /\ MenuCancelled => (sess.forms = 0 /\ sess.confirms = 0 /\ sess.executed = <<>>)
    /\ FormCancelled => (sess.confirms = 0 /\ sess.executed = <<>>)
    /\ ConfirmDeclined => sess.executed = <<>>

(***************************************************************************)
(* C2: when a menu of the tree navigation is cancelled, at the root menu   *)
(* or below any number of sub-menus, navigateCommandTree returns the empty *)
(* path, never a prefix of the path walked, and the session ends with no   *)
(* form, no confirmation and no executed command.                          *)
(***************************************************************************)
C2_CancelYieldsEmptyPath ==
    MenuCancelled =>
        /\ sess.pc = "done"
        /\ sess.selectedPath = <<>>
        /\ sess.forms = 0
        /\ sess.confirms = 0
        /\ sess.executed = <<>>
        /\ sess.cleanups = 1

\* a menu two levels below the root menu was cancelled and the session ended
C2_Witness ==
    /\ MenuCancelled
    /\ sess.pc = "done"
    /\ sess.err = "nil"
    /\ Len(sess.path) >= 2

(***************************************************************************)
(* Specification SpecPanels: one panel of the renderer is opened (a menu,  *)
(* a search menu, a flag form or a confirmation) and key events are        *)
(* delivered to its model.                                                 *)
(***************************************************************************)
PanelPool ==
    { [ID |-> X, Label |-> <<"A", "b">>, Description |-> EmptyStr, Disabled |-> FALSE],
      [ID |-> X, Label |-> X, Description |-> <<"t", "A">>, Disabled |-> FALSE],
      [ID |-> <<"a", "B">>, Label |-> X, Description |-> EmptyStr, Disabled |-> TRUE],
      [ID |-> EmptyStr, Label |-> <<"T">>, Description |-> EmptyStr, Disabled |-> FALSE] }

\* the option lists handed to a menu, the empty list among them
PanelLists == UNION { [1..n -> PanelPool] : n \in 0..MaxItems }

MenuPanelInit ==
    /\ sess = [pc |-> "menu"]
    /\ \E items \in PanelLists : menu = newMenuModel(items)
    /\ form = NoPanel
    /\ confirm = NoPanel
    /\ search = NoPanel
    /\ hist = NoHist

\* the history of a search menu that has just been opened
newSearchHistory(m) ==
    [before |-> m.filteredItems, after |-> m.filteredItems, cursorBefore |-> 0,
     last |-> "none"]

\* the history after a key took the search menu from m to m2: last is "typed"
\* when the key appended a character to the query (before and after are the
\* lists shown before and after it, cursorBefore the cursor before it),
\* "deleted" when the key that followed a typed character took that
\* character away again
searchHistory(h, m, m2) ==
    IF Len(m2.searchQuery) = Len(m.searchQuery) + 1
    THEN [before |-> m.filteredItems, after |-> m2.filteredItems,
          cursorBefore |-> m.cursor, last |-> "typed"]
    ELSE IF h.last = "typed" /\ Len(m2.searchQuery) = Len(m.searchQuery) - 1
    THEN [h EXCEPT !.last = "deleted"]
    ELSE [h EXCEPT !.last = "other"]

SearchPanelInit ==
    /\ sess = [pc |-> "search"]
    /\ \E items \in PanelLists :
          /\ search = NewSearchMenuModel(items)
          /\ hist = newSearchHistory(search)
    /\ menu = NoPanel
    /\ form = NoPanel
    /\ confirm = NoPanel

FormPanelInit ==
    /\ sess = [pc |-> "form"]
    /\ \E items \in FormItemLists :
          /\ form = newFormModel(items)
          /\ hist = newFormHistory(form)
    /\ menu = NoPanel
    /\ confirm = NoPanel
    /\ search = NoPanel

ConfirmPanelInit ==
    /\ sess = [pc |-> "confirm"]
    /\ confirm = newConfirmModel
    /\ menu = NoPanel
    /\ form = NoPanel
    /\ search = NoPanel
    /\ hist = NoHist

PanelInit ==
    /\ TreeIdle
    /\ FilterIdle
    /\ collect = [pc |-> "off"]
    /\ call = NoCall
    /\ \/ MenuPanelInit
       \/ SearchPanelInit
       \/ FormPanelInit
       \/ ConfirmPanelInit

\* SearchMenuModel.Update(tea.KeyMsg)
SearchKey ==
    /\ sess.pc = "search"
    /\ \E k \in SearchKeys :
          /\ WithinQuery(search, k)
          /\ search' = searchUpdate(search, k)
    /\ hist' = searchHistory(hist, search, search')
    /\ UNCHANGED <<sess, menu, form, confirm, collect, call>>
    /\ UNCHANGED <<treeVars, filterVars>>

PanelNext ==
    \/ MenuKey
    \/ SearchKey
    \/ FormKey
    \/ ConfirmKey

SpecPanels == PanelInit /\ [][PanelNext]_vars

(***************************************************************************)
(* C11: in every reachable state of a SearchMenuModel, filteredItems is    *)
(* the filter of the full item list by the current searchQuery, whatever   *)
(* keys led there; so a backspace after a typed character brings back the  *)
(* list shown before it, and every step that returns to the empty query    *)
(* restores the original items with cursor 0.                              *)
(***************************************************************************)
SearchListIsFilterOfQuery ==
    search # NoPanel => search.filteredItems = filterItems(search.items, search.searchQuery)

BackToEmptyQuery ==
    /\ search # NoPanel
    /\ search.searchQuery # EmptyStr
    /\ search'.searchQuery = EmptyStr

TypedThenDeletedRestores ==
    (search # NoPanel /\ hist.last = "deleted") => search.filteredItems = hist.before

C11_ListDependsOnQueryOnly ==
    /\ [](SearchListIsFilterOfQuery /\ TypedThenDeletedRestores)
    /\ [][BackToEmptyQuery =>
            (search'.filteredItems = search.items /\ search'.cursor = 0)]_vars

\* a character that narrowed the full list to a shorter, non-empty one was
\* typed and then deleted; the query is empty again and the full list is back
C11_Witness ==
    /\ search # NoPanel
    /\ hist.last = "deleted"
    /\ search.searchQuery = EmptyStr
    /\ Len(search.items) = MaxItems
    /\ hist.before = search.items
    /\ Len(hist.after) \in 1..(MaxItems - 1)
    /\ search.filteredItems = search.items
    /\ search.cursor = 0

(***************************************************************************)
(* Specification SpecCollect: collectFlagItems is called on a command of a *)
(* tree in which every command declares its own choice of the flags n and  *)
(* p; a declaration's default value names the command that declares it.    *)
(***************************************************************************)
NodeDigit == <<"1", "2", "3", "4", "5", "6", "7">>

FlagN(n) == Flag(<<"n">>, "int", <<NodeDigit[n]>>)

FlagP(n) == Flag(<<"p">>, "string", <<NodeLetter[n]>>)

\* which of the two flags a command declares
FlagChoices == {"none", "n", "p", "np"}

\* the flag set of a command, in the order VisitAll visits it
LocalFlagsOf(n, choice) ==
    (IF choice \in {"n", "np"} THEN <<FlagN(n)>> ELSE <<>>)
    \o (IF choice \in {"p", "np"} THEN <<FlagP(n)>> ELSE <<>>)
    \o (IF n = Root THEN TuiFlags ELSE <<>>)

CollectCatalogs ==
    { [parent |-> p, run |-> [n \in Nodes |-> TRUE], listed |-> [n \in Nodes |-> TRUE],
       use |-> UseDistinct, flags |-> [n \in Nodes |-> LocalFlagsOf(n, ch[n])]] :
        p \in SessionShapes, ch \in [Nodes -> FlagChoices] }

CollectInit ==
    /\ FilterIdle
    /\ catalog \in CollectCatalogs
    /\ tpc = "off"
    /\ flat = <<>>
    /\ flatNode = <<>>
    /\ menuItems = <<>>
    /\ menuItemsNode = <<>>
    /\ treeMenu = <<>>
    /\ sess = [pc |-> "off"]
    /\ menu = NoPanel
    /\ form = NoPanel
    /\ confirm = NoPanel
    /\ search = NoPanel
    /\ hist = NoHist
    /\ call = NoCall
    /\ \E cmd \in Nodes : collect = [pc |-> "init", cmd |-> cmd, items |-> <<>>]

\* c.collectFlagItems(cmd)
DoCollectFlagItems ==
    /\ collect.pc = "init"
    /\ collect' = [collect EXCEPT !.pc = "done",
                                  !.items = collectFlagItems(catalog, catalog.flags, collect.cmd)]
    /\ UNCHANGED <<sess, menu, form, confirm, search, hist, call>>
    /\ UNCHANGED <<treeVars, filterVars>>

CollectNext == DoCollectFlagItems

SpecCollect == CollectInit /\ [][CollectNext]_vars

\* the commands on the way from cmd up to the root that declare the flag
DeclaringScopes(c, cmd, name) ==
    { i \in 1..Len(PathTo(c, cmd)) : Lookup(c.flags[PathTo(c, cmd)[i]], name) # 0 }

\* C12: whatever flags the command and its ancestors declare, the list
\* returned by collectFlagItems has no two items with the same name.
C12_NoDuplicateNames ==
    collect.pc = "done" =>
        \A i, j \in 1..Len(collect.items) :
            i # j => collect.items[i].Name # collect.items[j].Name

\* a flag declared by the target and by two of its ancestors, and a second
\* flag declared twice on the way up, were collected
C12_Witness ==
    /\ collect.pc = "done"
    /\ Cardinality(DeclaringScopes(catalog, collect.cmd, <<"p">>)) >= 3
    /\ Cardinality(DeclaringScopes(catalog, collect.cmd, <<"n">>)) >= 2
    /\ Lookup(catalog.flags[collect.cmd], <<"p">>) # 0
    /\ Len(collect.items) = 2

\* the declaration of the flag in the scope closest to cmd
ClosestDeclaration(c, cmd, name) ==
    LET scopes == DeclaringScopes(c, cmd, name)
        i == CHOOSE k \in scopes : \A m \in scopes : m <= k
        fl == c.flags[PathTo(c, cmd)[i]]
    IN fl[Lookup(fl, name)]

\* C13: a flag name declared by the target or by one of its ancestors is
\* returned once, with the default value of the declaration closest to the
\* target: the target's own before any ancestor's, a nearer ancestor's
\* before a farther one's.
C13_ClosestScopeWins ==
    collect.pc = "done" =>
        \A name \in {<<"n">>, <<"p">>} :
            DeclaringScopes(catalog, collect.cmd, name) # {} =>
                /\ Cardinality({ i \in 1..Len(collect.items) :
                                    collect.items[i].Name = name }) = 1
                /\ \A i \in 1..Len(collect.items) :
                      collect.items[i].Name = name =>
                          collect.items[i].DefaultValue =
                              ClosestDeclaration(catalog, collect.cmd, name).DefValue

\* p is declared by the target and by an ancestor; n is declared by two
\* ancestors and not by the target; both were collected
C13_Witness ==
    /\ collect.pc = "done"
    /\ Lookup(catalog.flags[collect.cmd], <<"p">>) # 0
    /\ Cardinality(DeclaringScopes(catalog, collect.cmd, <<"p">>)) >= 2
    /\ Lookup(catalog.flags[collect.cmd], <<"n">>) = 0
    /\ Cardinality(DeclaringScopes(catalog, collect.cmd, <<"n">>)) >= 2
    /\ \E i \in 1..Len(collect.items) :
          /\ collect.items[i].Name = <<"n">>
          /\ collect.items[i].DefaultValue # <<NodeDigit[Root]>>
    /\ \E i \in 1..Len(collect.items) :
          /\ collect.items[i].Name = <<"p">>
          /\ collect.items[i].DefaultValue = <<NodeLetter[collect.cmd]>>

\* a form with its history is open
FormTracked == form # NoPanel /\ hist # NoHist

\* the other of the two literal values of a bool
Flip(v) == CASE v = TrueStr -> FalseStr [] v = FalseStr -> TrueStr

(***************************************************************************)
(* C14: on a bool item of a form in Navigating, a toggle key (left or      *)
(* right) flips values[name] between "true" and "false" and leaves the     *)
(* form in Navigating and every other value as it was; after two toggle    *)
(* keys in a row values is what it was before them, so a default "false"   *)
(* toggled twice is "false" again.                                         *)
(***************************************************************************)
C14_ToggleFlipsAndTwiceRestores ==
    (FormTracked /\ hist.run > 0) =>
        LET name == form.items[form.cursor + 1].Name
        IN /\ ~form.editMode
           /\ hist.run = 1 =>
                 form.values = [hist.runStart EXCEPT ![name] = Flip(@)]
           /\ hist.run = 2 => form.values = hist.runStart

\* a bool item with default "false" has just been toggled twice
C14_Witness ==
    /\ FormTracked
    /\ hist.run = 2
    /\ form.items[form.cursor + 1].DefaultValue = FalseStr
    /\ form.values[form.items[form.cursor + 1].Name] = FalseStr
    /\ ~form.quitting

(***************************************************************************)
(* C15: Esc in Editing takes the form back to Navigating; it neither ends  *)
(* nor cancels the form, and values is what it was when edit mode was      *)
(* entered, whatever was typed since: the buffer is dropped.               *)
(***************************************************************************)
C15_EscInEditingKeepsValues ==
    [][ (FormTracked /\ form.editMode /\ form' = formUpdate(form, "esc")) =>
            /\ ~form'.editMode
            /\ form'.quitting = form.quitting
            /\ form'.cancelled = form.cancelled
            /\ form'.values = hist.entry
            /\ form'.values = form.values ]_vars

\* Esc has just ended an edit in which the buffer had been changed
C15_Witness ==
    /\ FormTracked
    /\ hist.escaped
    /\ ~form.editMode
    /\ ~form.quitting
    /\ form.editBuffer # hist.entry[form.items[form.cursor + 1].Name]
    /\ form.values = hist.entry

(***************************************************************************)
(* C18: the mapping returned by a finalized form has one entry for each    *)
(* item of the form, and every item that was never toggled and never put   *)
(* into edit mode maps to its default value, whatever was done to the      *)
(* other items.                                                            *)
(***************************************************************************)
C18_UntouchedKeepDefault ==
    (FormTracked /\ form.quitting /\ ~form.cancelled) =>
        LET result == RenderFlagFormResult(form)
        IN /\ DOMAIN result = ItemNames(form.items)
           /\ Cardinality(DOMAIN result) = Len(form.items)
           /\ \A i \in 1..Len(form.items) :
                 form.items[i].Name \notin hist.touched =>
                     result[form.items[i].Name] = form.items[i].DefaultValue

\* a form of two items was finalized after one of them was given a value
\* other than its default and the other was left alone
C18_Witness ==
    /\ FormTracked
    /\ form.quitting
    /\ ~form.cancelled
    /\ ~form.editMode
    /\ Len(form.items) = 2
    /\ Cardinality(hist.touched) = 1
    /\ \E i \in 1..2 :
          /\ form.items[i].Name \in hist.touched
          /\ form.items[i].Type # "bool"
          /\ form.values[form.items[i].Name] # form.items[i].DefaultValue

(***************************************************************************)
(* C16: renderer.Cleanup is called once per session, when executeTUI       *)
(* returns and not before, whatever the outcome: the command was executed, *)
(* a menu or the form was cancelled, the confirmation was denied, a flag   *)
(* value was refused, or a Render call failed at any stage.                *)
(***************************************************************************)
C16_CleanupExactlyOnce ==
    /\ sess.pc = "done" => sess.cleanups = 1
    /\ sess.pc # "done" => sess.cleanups = 0

\* the session ended with the error of a Render call made after the menu
C16_Witness ==
    /\ sess.pc = "done"
    /\ sess.err = "render"
    /\ sess.forms + sess.confirms > 0
    /\ sess.executed = <<>>
    /\ sess.cleanups = 1

(***************************************************************************)
(* C17: in menuModel, SearchMenuModel and formModel the cursor is an index *)
(* of the displayed list whenever that list is not empty, and every key    *)
(* that changes the search query or the filtered list of a search menu     *)
(* leaves its cursor at 0.                                                 *)
(***************************************************************************)
CursorInRange ==
    /\ (menu # NoPanel /\ Len(menu.items) > 0) =>
          (menu.cursor >= 0 /\ menu.cursor <= Len(menu.items) - 1)
    /\ (search # NoPanel /\ Len(search.filteredItems) > 0) =>
          (search.cursor >= 0 /\ search.cursor <= Len(search.filteredItems) - 1)
    /\ (form # NoPanel /\ Len(form.items) > 0) =>
          (form.cursor >= 0 /\ form.cursor <= Len(form.items) - 1)

FilterChanged ==
    /\ search # NoPanel
    /\ \/ search'.searchQuery # search.searchQuery
       \/ search'.filteredItems # search.filteredItems

C17_CursorInRangeAndReset ==
    /\ []CursorInRange
    /\ [][FilterChanged => search'.cursor = 0]_vars

\* a character typed while the cursor was on a lower entry cut the list to
\* fewer entries than the cursor's index, and the cursor is at 0
C17_Witness ==
    /\ search # NoPanel
    /\ hist.last = "typed"
    /\ hist.cursorBefore > 0
    /\ Len(search.filteredItems) > 0
    /\ hist.cursorBefore >= Len(search.filteredItems)
    /\ search.cursor = 0

(***************************************************************************)
(* C19 (as claimed): whatever the option list (empty, or all disabled) and *)
(* whatever the keys, the menu never indexes its list out of range, and    *)
(* RenderCommandMenu returns -1 exactly when the menu was cancelled and    *)
(* otherwise the index of an option of the list that is not disabled.      *)
(***************************************************************************)
C19_MenuResultValid ==
    menu # NoPanel =>
        /\ ~menu.panicked
        /\ menu.quitting =>
              LET selectedIndex == RenderCommandMenuResult(menu)
              IN /\ (selectedIndex = -1) <=> menu.cancelled
                 /\ ~menu.cancelled =>
                       /\ selectedIndex >= 0
                       /\ selectedIndex < Len(menu.items)
                       /\ ~menu.items[selectedIndex + 1].Disabled

(***************************************************************************)
(* C20 (as claimed): in every state of every panel (menu, search menu in   *)
(* navigation and in search mode, form in Navigating and in Editing,       *)
(* confirmation) a Ctrl+C key event ends the panel with a cancelled        *)
(* result.                                                                 *)
(***************************************************************************)
QuitsCancelled(m) == m.quitting /\ m.cancelled

C20_CtrlCQuitsEverywhere ==
    /\ (menu # NoPanel /\ ~menu.panicked) => QuitsCancelled(menuUpdate(menu, "ctrl+c"))
    /\ search # NoPanel => QuitsCancelled(searchUpdate(search, "ctrl+c"))
    /\ form # NoPanel => QuitsCancelled(formUpdate(form, "ctrl+c"))
    /\ confirm # NoPanel => QuitsCancelled(confirmUpdate(confirm, "ctrl+c"))

(***************************************************************************)
(* The variables other than call, and their values while only an           *)
(* operation recorded in call is running.                                  *)
(***************************************************************************)
notCall == <<treeVars, filterVars, sess, menu, form, confirm, search, hist, collect>>

CallOnly ==
    /\ TreeIdle
    /\ FilterIdle
    /\ sess = [pc |-> "off"]
    /\ menu = NoPanel
    /\ form = NoPanel
    /\ confirm = NoPanel
    /\ search = NoPanel
    /\ hist = NoHist
    /\ collect = [pc |-> "off"]

(***************************************************************************)
(* The mode decision: Command.shouldUseTUI and the decorator's             *)
(* shouldUseTUIForCommand.                                                 *)
(***************************************************************************)
\* a nil *TUIConfig
NilConfig == <<>>

InteractiveModes == {"ModeAuto", "ModeTUI", "ModeCLI"}

\* the fields of TUIConfig the mode decision reads
TUIConfigs ==
    [Enabled : BOOLEAN, InteractiveMode : InteractiveModes, AutoDetect : BOOLEAN]

\* Flags().GetBool("tui"): "absent" when the flag is not defined (err != nil)
TuiFlagValues == {"absent", "false", "true"}

\* os.Getenv("COBRA_TUI")
EnvValues == {"", "true", "1"}

\* Command.shouldUseTUI; terminal is what isInteractiveTerminal returns
shouldUseTUI(tuiConfig, tuiFlag, env, terminal) ==
    IF tuiConfig # NilConfig /\ tuiConfig.InteractiveMode = "ModeCLI" THEN FALSE
    ELSE IF tuiConfig # NilConfig /\ tuiConfig.InteractiveMode = "ModeTUI" THEN TRUE
    ELSE IF tuiFlag = "true" THEN TRUE
    ELSE IF env = "true" THEN TRUE
    ELSE IF tuiConfig # NilConfig /\ tuiConfig.Enabled
         THEN (IF tuiConfig.AutoDetect THEN terminal ELSE TRUE)
    ELSE FALSE

\* shouldUseTUIForCommand; terminal is what checkIsInteractiveTerminal returns
shouldUseTUIForCommand(tuiConfig, tuiFlag, env, terminal) ==
    IF tuiFlag = "true" THEN TRUE
    ELSE IF env = "true" THEN TRUE
    ELSE IF tuiConfig # NilConfig /\ tuiConfig.Enabled
         THEN IF tuiConfig.InteractiveMode = "ModeTUI" THEN TRUE
              ELSE IF tuiConfig.InteractiveMode = "ModeAuto" /\ terminal THEN TRUE
              ELSE FALSE
    ELSE FALSE

(***************************************************************************)
(* Specification SpecMode: one mode decision, by either of the two         *)
(* functions, for a configuration, a --tui flag, a COBRA_TUI value and a   *)
(* terminal.                                                               *)
(***************************************************************************)
ModeInit ==
    /\ CallOnly
    /\ \E cfg \in TUIConfigs \cup {NilConfig}, f \in TuiFlagValues,
          e \in EnvValues, t \in BOOLEAN :
          call = [pc |-> "decide", tuiConfig |-> cfg, tuiFlag |-> f, env |-> e,
                  terminal |-> t, by |-> "none", useTUI |-> FALSE]

\* c.shouldUseTUI() in Command.Execute
DoShouldUseTUI ==
    /\ call.pc = "decide"
    /\ call' = [call EXCEPT !.pc = "decided", !.by = "shouldUseTUI",
                   !.useTUI = shouldUseTUI(call.tuiConfig, call.tuiFlag,
                                           call.env, call.terminal)]
    /\ UNCHANGED notCall

\* shouldUseTUIForCommand(c, config) in the wrappers of wrapExecute
DoShouldUseTUIForCommand ==
    /\ call.pc = "decide"
    /\ call' = [call EXCEPT !.pc = "decided", !.by = "shouldUseTUIForCommand",
                   !.useTUI = shouldUseTUIForCommand(call.tuiConfig, call.tuiFlag,
                                                     call.env, call.terminal)]
    /\ UNCHANGED notCall

ModeNext ==
    \/ DoShouldUseTUI
    \/ DoShouldUseTUIForCommand

SpecMode == ModeInit /\ [][ModeNext]_vars

(***************************************************************************)
(* C21 (as claimed): when the configuration's InteractiveMode is ModeCLI   *)
(* the mode decision never selects the TUI, whatever the --tui flag,       *)
(* COBRA_TUI and Enabled are, in Command.shouldUseTUI and in               *)
(* shouldUseTUIForCommand alike.                                           *)
(***************************************************************************)
C21_ModeCLINeverSelectsTUI ==
    (call.pc = "decided" /\ call.tuiConfig # NilConfig
        /\ call.tuiConfig.InteractiveMode = "ModeCLI") => ~call.useTUI

(***************************************************************************)
(* C22 (as claimed): with ConfirmBeforeExecute set, the selected command   *)
(* is executed only after the confirmation of the same session returned    *)
(* confirmed = true; and once the confirmation has been ended by Esc, q or *)
(* Ctrl+C, or by Enter on No, it stays so until RenderConfirmation returns *)
(* and the session then ends without executing anything.                   *)
(***************************************************************************)
GateRefused ==
    /\ sess.pc = "confirm"
    /\ confirm.quitting
    /\ ~confirm.confirmed

ExecutedOnlyIfConfirmed ==
    (catalog.tuiConfig.ConfirmBeforeExecute /\ sess.executed # <<>>) =>
        /\ sess.confirms = 1
        /\ RenderConfirmationResult(confirm)

C22_ExecutedOnlyIfConfirmed ==
    /\ []ExecutedOnlyIfConfirmed
    /\ [][ GateRefused =>
              \/ GateRefused'
              \/ (sess'.pc = "done" /\ sess'.executed = <<>>) ]_vars

(***************************************************************************)
(* C23 (as claimed): a disabled entry is never the selected result: no key *)
(* event takes a menuModel or a SearchMenuModel, in navigation mode or in  *)
(* search mode, from open to finalized (quitting and not cancelled) with   *)
(* the cursor on a disabled entry.                                         *)
(***************************************************************************)
MenuSelects == menu # NoPanel /\ ~menu.quitting /\ menu'.quitting /\ ~menu'.cancelled

SearchSelects ==
    search # NoPanel /\ ~search.quitting /\ search'.quitting /\ ~search'.cancelled

C23_DisabledNeverSelected ==
    [][ /\ MenuSelects => ~menu'.items[menu'.cursor + 1].Disabled
        /\ SearchSelects => ~search'.filteredItems[search'.cursor + 1].Disabled ]_vars

(***************************************************************************)
(* C24 (as claimed): in search mode every key of one character is appended *)
(* to the query, the filtered list becomes the filter of the items by the  *)
(* new query, the cursor is 0 and the menu stays open in search mode.      *)
(***************************************************************************)
TypedChars == { k \in SearchKeys : SingleChar(k) }

C24_TypedCharAppended ==
    (search # NoPanel /\ search.searchMode /\ ~search.quitting) =>
        \A k \in TypedChars :
            LET m == searchUpdate(search, k)
            IN /\ m.searchQuery = Append(search.searchQuery, k)
               /\ m.filteredItems = filterItems(search.items, m.searchQuery)
               /\ m.cursor = 0
               /\ m.searchMode
               /\ ~m.quitting

(***************************************************************************)
(* C25: Esc on a search menu that is open in search mode takes it back to  *)
(* navigation mode and neither ends nor cancels it: afterwards searchMode  *)
(* is false, the query is empty, filteredItems is the full item list, the  *)
(* cursor is 0, and quitting and cancelled are false.                      *)
(***************************************************************************)
EscInSearching ==
    /\ search # NoPanel
    /\ search.searchMode
    /\ ~search.quitting
    /\ search' = searchUpdate(search, "esc")

C26_TerminalStatesFinal ==
    [][ /\ (menu # NoPanel /\ menu.quitting) =>
              (menu'.cursor = menu.cursor /\ menu'.cancelled = menu.cancelled)
        /\ (search # NoPanel /\ search.quitting) =>
              /\ search'.cursor = search.cursor
              /\ search'.cancelled = search.cancelled
              /\ search'.filteredItems = search.filteredItems
        /\ (form # NoPanel /\ form.quitting) =>
              (form'.values = form.values /\ form'.cancelled = form.cancelled)
        /\ (confirm # NoPanel /\ confirm.quitting) =>
              /\ confirm'.confirmed = confirm.confirmed
              /\ confirm'.cancelled = confirm.cancelled ]_vars

(***************************************************************************)
(* Specification SpecResize: one panel of the renderer is open, and key    *)
(* events and window-size events are delivered to its model in any order.  *)
(***************************************************************************)
ResizePool == { it \in PanelPool : it.Label = X }

ResizeLists == UNION { [1..n -> ResizePool] : n \in 0..MaxItems }

ResizeInit ==
    /\ TreeIdle
    /\ FilterIdle
    /\ collect = [pc |-> "off"]
    /\ call = NoCall
    /\ \/ /\ sess = [pc |-> "menu"]
          /\ \E items \in ResizeLists : menu = newMenuModel(items)
          /\ form = NoPanel
          /\ confirm = NoPanel
          /\ search = NoPanel
          /\ hist = NoHist
       \/ /\ sess = [pc |-> "search"]
          /\ \E items \in ResizeLists :
                /\ search = NewSearchMenuModel(items)
                /\ hist = newSearchHistory(search)
          /\ menu = NoPanel
          /\ form = NoPanel
          /\ confirm = NoPanel
       \/ FormPanelInit
       \/ ConfirmPanelInit

\* menuModel.Update(tea.WindowSizeMsg)
MenuResize ==
    /\ sess.pc = "menu"
    /\ ~menu.panicked
    /\ \E msg \in WindowSizes : menu' = menuResize(menu, msg)
    /\ UNCHANGED <<sess, form, confirm, auxVars>>
    /\ UNCHANGED <<treeVars, filterVars>>

\* SearchMenuModel.Update(tea.WindowSizeMsg)
SearchResize ==
    /\ sess.pc = "search"
    /\ \E msg \in WindowSizes : search' = searchResize(search, msg)
    /\ UNCHANGED <<sess, menu, form, confirm, hist, collect, call>>
    /\ UNCHANGED <<treeVars, filterVars>>

\* formModel.Update(tea.WindowSizeMsg)
FormResize ==
    /\ sess.pc = "form"
    /\ \E msg \in WindowSizes : form' = formResize(form, msg)
    /\ UNCHANGED <<sess, menu, confirm, auxVars>>
    /\ UNCHANGED <<treeVars, filterVars>>

\* confirmModel.Update(tea.WindowSizeMsg)
ConfirmResize ==
    /\ sess.pc = "confirm"
    /\ \E msg \in WindowSizes : confirm' = confirmResize(confirm, msg)
    /\ UNCHANGED <<sess, menu, form, auxVars>>
    /\ UNCHANGED <<treeVars, filterVars>>

ResizeNext ==
    \/ MenuKey
    \/ SearchKey
    \/ FormKey
    \/ ConfirmKey
    \/ MenuResize
    \/ SearchResize
    \/ FormResize
    \/ ConfirmResize

SpecResize == ResizeInit /\ [][ResizeNext]_vars

(***************************************************************************)
(* C29: a window-size event delivered to a panel model in any state sets   *)
(* its width and height to the event's and nothing else: cursor, search    *)
(* mode, query, filtered list, form values, edit mode, edit buffer, the    *)
(* confirmation's choice and the cancelled and quitting flags stay as they *)
(* were; and no step that changes a stored size changes another field.     *)
(***************************************************************************)
\* m2 is m with the size of msg, every other field as in m
ResizedTo(m, m2, msg) ==
    /\ m2.width = msg.Width
    /\ m2.height = msg.Height
    /\ \A f \in DOMAIN m : f \notin {"width", "height"} => m2[f] = m[f]
    /\ DOMAIN m2 = DOMAIN m

\* from m to m2 the stored size changed
SizeChanged(m, m2) == m # NoPanel /\ (m2.width # m.width \/ m2.height # m.height)

\* from m to m2 no field but the size changed
OnlySizeChanged(m, m2) == [m2 EXCEPT !.width = m.width, !.height = m.height] = m

ResizeSetsOnlySize ==
    \A msg \in WindowSizes :
        /\ (menu # NoPanel /\ ~menu.panicked) => ResizedTo(menu, menuResize(menu, msg), msg)
        /\ search # NoPanel => ResizedTo(search, searchResize(search, msg), msg)
        /\ form # NoPanel => ResizedTo(form, formResize(form, msg), msg)
        /\ confirm # NoPanel => ResizedTo(confirm, confirmResize(confirm, msg), msg)

C29_ResizeChangesOnlySize ==
    /\ []ResizeSetsOnlySize
    /\ [][ /\ SizeChanged(menu, menu') => OnlySizeChanged(menu, menu')
           /\ SizeChanged(search, search') => OnlySizeChanged(search, search')
           /\ SizeChanged(form, form') => OnlySizeChanged(form, form')
           /\ SizeChanged(confirm, confirm') => OnlySizeChanged(confirm, confirm') ]_vars

\* a search menu in search mode, with a query that cut the list and the
\* cursor moved down, holds a size other than the one it was created with
C29_Witness ==
    /\ search # NoPanel
    /\ search.width # getTerminalSize.width
    /\ search.height # getTerminalSize.height
    /\ search.searchMode
    /\ search.searchQuery # EmptyStr
    /\ Len(search.filteredItems) < Len(search.items)
    /\ search.cursor > 0
    /\ ~search.quitting

(***************************************************************************)
(* BuildCommandTree step by step.  The recursive function is run as its    *)
(* call stack: one frame for each BuildCommandTree call that has not       *)
(* returned, holding its cmd, the index of the next child to visit and the *)
(* item built so far.  The command definitions are those AddCommand        *)
(* accepts: a command is never its own child, but may be listed below one  *)
(* of its descendants.                                                     *)
(***************************************************************************)
\* the deepest call stack explored; the Go runtime ends the program with a
\* fatal stack overflow when the stack outgrows its limit
MaxDepth == 4

GraphNodes == {1, 2, 3}

\* the sub-commands of n, in the order cmd.Commands() sorts them
ChildLists(n) ==
    LET a == CHOOSE x \in GraphNodes \ {n} : \A y \in GraphNodes \ {n} : x <= y
        b == CHOOSE x \in GraphNodes \ {n} : x # a
    IN { <<>>, <<a>>, <<b>>, <<a, b>> }

\* cmd.Commands() of every command, all of them available
CommandGraphs ==
    { [n \in GraphNodes |-> IF n = 1 THEN c1 ELSE IF n = 2 THEN c2 ELSE c3] :
        c1 \in ChildLists(1), c2 \in ChildLists(2), c3 \in ChildLists(3) }

SeqRange(s) == { s[i] : i \in 1..Len(s) }

\* the commands at most k levels below a command of S
RECURSIVE Below(_, _, _)
Below(g, S, k) ==
    IF k = 0 THEN {}
    ELSE LET next == UNION { SeqRange(g[n]) : n \in S }
         IN next \cup Below(g, next, k - 1)

\* some command of the tree of cmd is its own descendant
Cyclic(g, cmd) ==
    \E n \in {cmd} \cup Below(g, {cmd}, Cardinality(GraphNodes)) :
        n \in Below(g, {n}, Cardinality(GraphNodes))

\* the frame of a BuildCommandTree(cmd, path) call that has just built item
Frame(cmd) == [cmd |-> cmd, next |-> 1, item |-> [ID |-> cmd, Children |-> <<>>]]

(***************************************************************************)
(* Specification SpecBuild: GetExecutableCommands builds the tree of a     *)
(* root command and navigateAndExecute then shows the flat menu.           *)
(***************************************************************************)
BuildInit ==
    /\ CallOnly
    /\ \E g \in CommandGraphs :
          call = [pc |-> "build", commands |-> g, stack |-> <<Frame(1)>>,
                  root |-> <<>>, err |-> "none"]

\* the loop of the innermost call reaches a child: BuildCommandTree(child, currentPath)
BuildDescend ==
    /\ call.pc = "build"
    /\ LET d == Len(call.stack)
           top == call.stack[d]
       IN /\ top.next <= Len(call.commands[top.cmd])
          /\ d < MaxDepth
          /\ call' = [call EXCEPT
                        !.stack = Append([@ EXCEPT ![d].next = top.next + 1],
                                         Frame(call.commands[top.cmd][top.next]))]
    /\ UNCHANGED notCall

\* the same call when the stack cannot grow: the runtime's fatal stack overflow
BuildOverflow ==
    /\ call.pc = "build"
    /\ LET d == Len(call.stack)
           top == call.stack[d]
       IN /\ top.next <= Len(call.commands[top.cmd])
          /\ d >= MaxDepth
          /\ call' = [call EXCEPT !.pc = "overflow"]
    /\ UNCHANGED notCall

\* the loop of the innermost call is over: return item, which the caller appends
BuildReturn ==
    /\ call.pc = "build"
    /\ LET d == Len(call.stack)
           top == call.stack[d]
       IN /\ top.next > Len(call.commands[top.cmd])
          /\ call' = IF d = 1
                     THEN [call EXCEPT !.pc = "built", !.stack = <<>>, !.root = top.item]
                     ELSE [call EXCEPT
                             !.stack = [SubSeq(@, 1, d - 1) EXCEPT
                                          ![d - 1].item.Children = Append(@, top.item)]]
    /\ UNCHANGED notCall

\* navigateAndExecute goes on to RenderCommandMenu
BuildShowMenu ==
    /\ call.pc = "built"
    /\ call' = [call EXCEPT !.pc = "menu"]
    /\ UNCHANGED notCall

BuildNext ==
    \/ BuildDescend
    \/ BuildOverflow
    \/ BuildReturn
    \/ BuildShowMenu

SpecBuild == BuildInit /\ [][BuildNext]_vars

(***************************************************************************)
(* C28 (as claimed): building the tree of a definition in which a command  *)
(* is its own descendant stops with a structural error before any menu is  *)
(* shown: BuildCommandTree never enters a command whose own call is still  *)
(* on the stack, never exhausts the stack, and never returns a tree.       *)
(***************************************************************************)
\* no command is being built inside its own BuildCommandTree call
NoReentry ==
    \A i, j \in 1..Len(call.stack) : i # j => call.stack[i].cmd # call.stack[j].cmd

C28_CyclicDefinitionRejected ==
    (call.pc # "off" /\ Cyclic(call.commands, 1)) =>
        /\ NoReentry
        /\ call.pc \notin {"overflow", "built", "menu"}

(***************************************************************************)
(* The decorator's applyFlagValues: the local flags of cmd only, the       *)
(* result of Set ignored, nothing returned.                                *)
(***************************************************************************)
RECURSIVE applyLocal(_, _, _, _, _)
applyLocal(flags, cmd, values, order, i) ==
    IF i > Len(order) THEN flags
    ELSE LET name == order[i]
             j == Lookup(flags[cmd], name)
         IN IF j = 0 THEN applyLocal(flags, cmd, values, order, i + 1)
            ELSE applyLocal(
                    [flags EXCEPT ![cmd][j].Value =
                                      IF SetAccepts(flags[cmd][j].Type, values[name])
                                      THEN SetValue(flags[cmd][j].Type, values[name])
                                      ELSE @,
                                  ![cmd][j].Changed = TRUE],
                    cmd, values, order, i + 1)

\* applyFlagValues(cmd, values) of decorate.go; order as in applyFlagValues
applyFlagValuesForCommand(flags, cmd, values, order) ==
    applyLocal(flags, cmd, values, order, 1)

(***************************************************************************)
(* Specification SpecApply: a values mapping is applied to a sub-command   *)
(* (scope 2) of a root (scope 1), by Command.applyFlagValues or by the     *)
(* decorator's applyFlagValues.                                            *)
(***************************************************************************)
\* the two commands: the sub-command's parent is the root, the root has none
ApplyChain == [parent |-> <<0, 1>>]

\* the sub-command declares n, s and v; the root declares s too, or nothing
ApplyLayouts ==
    LET sub == << Flag(<<"n">>, "int", <<"1">>), Flag(<<"s">>, "string", <<"q">>),
                  Flag(<<"v">>, "bool", FalseStr) >>
    IN { << <<>>, sub >>,
         << << Flag(<<"s">>, "string", <<"r">>), Flag(<<"n">>, "int", <<"7">>) >>, sub >> }

\* the values a form may return for each name; x is no int and no bool
ApplyChoices ==
    [ n : {"absent", <<"2">>, <<"x">>},
      s : {"absent", <<"a">>},
      v : {"absent", TrueStr, <<"x">>} ]

\* the map[string]string of a choice
ValuesOf(ch) ==
    LET names == { nm \in {<<"n">>, <<"s">>, <<"v">>} :
                      (nm = <<"n">> /\ ch.n # "absent") \/ (nm = <<"s">> /\ ch.s # "absent")
                      \/ (nm = <<"v">> /\ ch.v # "absent") }
    IN [nm \in names |-> IF nm = <<"n">> THEN ch.n ELSE IF nm = <<"s">> THEN ch.s ELSE ch.v]

ApplyInit ==
    /\ CallOnly
    /\ \E fl \in ApplyLayouts, ch \in ApplyChoices :
          call = [pc |-> "apply", before |-> fl, values |-> ValuesOf(ch), flags |-> fl,
                  scopes |-> {}, err |-> "none"]

\* c.applyFlagValues(selectedCmd, flagValues)
DoApplyFlagValues ==
    /\ call.pc = "apply"
    /\ \E order \in RangeOrders(call.values) :
          LET r == applyFlagValues(ApplyChain, call.flags, 2, call.values, order)
          IN call' = [call EXCEPT !.pc = "applied", !.flags = r.flags, !.scopes = {1, 2},
                                  !.err = IF r.err THEN "set" ELSE "nil"]
    /\ UNCHANGED notCall

\* applyFlagValues(cmd, flagValues) in executeLeafCommand: it has no result
DoApplyFlagValuesForCommand ==
    /\ call.pc = "apply"
    /\ \E order \in RangeOrders(call.values) :
          call' = [call EXCEPT !.pc = "applied", !.scopes = {2}, !.err = "nil",
                      !.flags = applyFlagValuesForCommand(call.flags, 2, call.values, order)]
    /\ UNCHANGED notCall

ApplyNext ==
    \/ DoApplyFlagValues
    \/ DoApplyFlagValuesForCommand

SpecApply == ApplyInit /\ [][ApplyNext]_vars

(***************************************************************************)
(* C30 (as claimed): applying a mapping is best-effort.  In every scope    *)
(* the call covers, a flag whose value the setter rejects keeps the value  *)
(* it had, every flag whose value the setter accepts holds that value      *)
(* afterwards, whatever the other pairs of the mapping are, and an error   *)
(* is returned exactly when some value was rejected.                       *)
(***************************************************************************)
\* scope, name pairs the call is to set
ApplyTargets ==
    { t \in call.scopes \X DOMAIN call.values : Lookup(call.before[t[1]], t[2]) # 0 }

Accepted(t) ==
    SetAccepts(call.before[t[1]][Lookup(call.before[t[1]], t[2])].Type, call.values[t[2]])

C30_BestEffortApply ==
    call.pc = "applied" =>
        /\ \A t \in ApplyTargets :
              LET j == Lookup(call.before[t[1]], t[2])
                  old == call.before[t[1]][j]
                  new == call.flags[t[1]][j]
              IN IF Accepted(t)
                 THEN new.Value = SetValue(old.Type, call.values[t[2]])
                 ELSE new.Value = old.Value
        /\ (call.err # "nil") <=> (\E t \in ApplyTargets : ~Accepted(t))

(***************************************************************************)
(* The decorator's session: a wrapper installed by wrapExecute calls       *)
(* executeTUIForCommand, which runs navigateAndExecute and                 *)
(* executeLeafCommand between the Render calls.  call holds                *)
(*   wrapper      which wrapper cobra called: "HelpFunc", "Run" or "RunE"  *)
(*   showMenu     GetExecutableCommands gave more than the command itself  *)
(*   hasFlags     the selected command has flags for the form              *)
(*   menus, forms, confirms, cleanups   how often each was called          *)
(*   failedAt     the Render call that returned an error                   *)
(*   executed     executeOriginalCommand was called                        *)
(*   printed      the error handed to printError                           *)
(*   returned     what the wrapper gave back to cobra: "nil" also for the  *)
(*                wrappers without a result                                *)
(***************************************************************************)
Wrappers == {"HelpFunc", "Run", "RunE"}

\* the deferred renderer.Cleanup(), the return of executeTUIForCommand with
\* err, and what the wrapper does with it
wrapperReturns(d, err) ==
    [d EXCEPT !.pc = "returned", !.cleanups = @ + 1,
              !.printed = IF d.wrapper # "RunE" /\ err # "nil" THEN err ELSE @,
              !.returned = IF d.wrapper = "RunE" THEN err ELSE "nil"]

\* executeLeafCommand from executeOriginalCommand
leafExecute(d) == wrapperReturns([d EXCEPT !.executed = TRUE], "nil")

\* executeLeafCommand from "if ... ConfirmBeforeExecute"
leafConfirm(d) ==
    IF d.tuiConfig.ConfirmBeforeExecute
    THEN [d EXCEPT !.pc = "confirm", !.confirms = @ + 1]
    ELSE leafExecute(d)

\* executeLeafCommand up to its first Render call
executeLeafCommand(d) ==
    IF d.tuiConfig.ShowFlags /\ d.hasFlags
    THEN [d EXCEPT !.pc = "form", !.forms = @ + 1]
    ELSE leafConfirm(d)

\* navigateAndExecute up to its first Render call
navigateAndExecute(d) ==
    IF d.showMenu THEN [d EXCEPT !.pc = "menu", !.menus = @ + 1]
    ELSE executeLeafCommand(d)

(***************************************************************************)
(* Specification SpecDecorate: one run of a wrapper of an enhanced command *)
(* in TUI mode.                                                            *)
(***************************************************************************)
DecorateInit ==
    /\ CallOnly
    /\ \E wr \in Wrappers, sf \in BOOLEAN, cb \in BOOLEAN, sm \in BOOLEAN, hf \in BOOLEAN :
          call = [pc |-> "wrapper", wrapper |-> wr,
                  tuiConfig |-> [ShowFlags |-> sf, ConfirmBeforeExecute |-> cb],
                  showMenu |-> sm, hasFlags |-> hf,
                  menus |-> 0, forms |-> 0, confirms |-> 0, cleanups |-> 0,
                  failedAt |-> "none", executed |-> FALSE,
                  printed |-> "none", returned |-> "none"]

\* the wrapper finds TUI mode on and calls executeTUIForCommand
WrapperEnter ==
    /\ call.pc = "wrapper"
    /\ call' = navigateAndExecute(call)
    /\ UNCHANGED notCall

\* RenderCommandMenu returns an index or -1
DecorateMenuReturn ==
    /\ call.pc = "menu"
    /\ \E selectedIndex \in {-1, 0} :
          call' = IF selectedIndex < 0 THEN wrapperReturns(call, "nil")
                  ELSE executeLeafCommand(call)
    /\ UNCHANGED notCall

\* RenderFlagForm returns values, or nil for a cancelled form: both go on
DecorateFormReturn ==
    /\ call.pc = "form"
    /\ call' = leafConfirm(call)
    /\ UNCHANGED notCall

\* RenderConfirmation returns confirmed
DecorateConfirmReturn ==
    /\ call.pc = "confirm"
    /\ \E confirmed \in BOOLEAN :
          call' = IF confirmed THEN leafExecute(call) ELSE wrapperReturns(call, "nil")
    /\ UNCHANGED notCall

\* the Render call the session is in returns an error
DecorateRenderError ==
    /\ call.pc \in {"menu", "form", "confirm"}
    /\ call' = wrapperReturns([call EXCEPT !.failedAt = call.pc], "render")
    /\ UNCHANGED notCall

DecorateNext ==
    \/ WrapperEnter
    \/ DecorateMenuReturn
    \/ DecorateFormReturn
    \/ DecorateConfirmReturn
    \/ DecorateRenderError

SpecDecorate == DecorateInit /\ [][DecorateNext]_vars

(***************************************************************************)
(* C27 (as claimed): when a Render call of the session returns an error,   *)
(* the session is over: no later stage runs, the command is not executed,  *)
(* Cleanup has been called, and the caller that started the session gets   *)
(* the renderer's error.                                                   *)
(***************************************************************************)
C27_RenderErrorAborts ==
    (call.pc # "off" /\ call.failedAt # "none") =>
        /\ call.pc = "returned"
        /\ call.failedAt = "menu" => (call.forms = 0 /\ call.confirms = 0)
        /\ call.failedAt = "form" => call.confirms = 0
        /\ ~call.executed
        /\ call.cleanups = 1
        /\ call.returned = "render"

(***************************************************************************)
(* C31 (as claimed): for each pair of the mapping only the first matching  *)
(* declaration on the way from the target command to the root is set, the  *)
(* one collectFlagItems reported: a flag of the same name declared by a    *)
(* more distant ancestor keeps its value and its Changed mark.             *)
(***************************************************************************)
C31_OnlyClosestDeclarationSet ==
    call.pc = "applied" =>
        \A name \in DOMAIN call.values :
            (Lookup(call.before[2], name) # 0 /\ Lookup(call.before[1], name) # 0) =>
                LET j == Lookup(call.before[1], name)
                IN /\ call.flags[1][j].Value = call.before[1][j].Value
                   /\ call.flags[1][j].Changed = call.before[1][j].Changed

(***************************************************************************)
(* C32: the confirmation has two choices, confirm at index 0, where the    *)
(* cursor starts, and deny at index 1.  In every reachable state the       *)
(* cursor is 0 or 1; Enter ends the confirmation with confirmed true       *)
(* exactly when the cursor is on confirm, so Enter as the first key        *)
(* confirms.                                                               *)
(***************************************************************************)
ConfirmCursorIsChoice ==
    confirm # NoPanel =>
        /\ confirm.cursor \in {0, 1}
        /\ LET m == confirmUpdate(confirm, "enter")
           IN /\ m.quitting
              /\ m.confirmed <=> (confirm.cursor = 0)
              /\ RenderConfirmationResult(m) <=> (confirm.cursor = 0)

EnterAsFirstKeyConfirms ==
    /\ newConfirmModel.cursor = 0
    /\ RenderConfirmationResult(confirmUpdate(newConfirmModel, "enter"))

C32_TwoChoicesEnterDecides ==
    /\ [](ConfirmCursorIsChoice /\ EnterAsFirstKeyConfirms)
    /\ [][ (confirm # NoPanel /\ confirm' = confirmUpdate(confirm, "enter")) =>
              /\ confirm'.quitting
              /\ confirm'.confirmed <=> (confirm.cursor = 0)
              /\ confirm'.cursor = confirm.cursor ]_vars

\* the cursor was moved to deny and Enter ended the confirmation: not
\* confirmed, and not cancelled either
C32_Witness ==
    /\ confirm # NoPanel
    /\ confirm.quitting
    /\ confirm.cursor = 1
    /\ ~confirm.confirmed
    /\ ~confirm.cancelled

(***************************************************************************)
(* The decorator's configureFlags: the local flags of cmd only, the four   *)
(* names of isTUIFlag left out, and FlagItem.Type never assigned.          *)
(***************************************************************************)
isTUIFlag(name) == name \in {TuiName, TuiThemeName, TuiConfirmName, TuiFlagsName}

\* the zero value of tui.FlagType, which is FlagTypeString (iota)
ZeroFlagType == "string"

\* the VisitAll callback of configureFlags over the flags fl[i..]
RECURSIVE configureFlagsVisit(_, _, _)
configureFlagsVisit(items, fl, i) ==
    IF i > Len(fl) THEN items
    ELSE LET flag == fl[i]
             item == [Name |-> flag.Name, Type |-> ZeroFlagType,
                      DefaultValue |-> flag.DefValue, CurrentValue |-> flag.DefValue,
                      Validator |-> "nil"]
         IN configureFlagsVisit(IF isTUIFlag(flag.Name) THEN items ELSE Append(items, item),
                                fl, i + 1)

\* the items configureFlags hands to RenderFlagForm
configureFlagsItems(flags, cmd) == configureFlagsVisit(<<>>, flags[cmd], 1)

(***************************************************************************)
(* Specification SpecItems: the parameter list of a sub-command (scope 2)  *)
(* of a root (scope 1) is built, by Command.collectFlagItems or by the     *)
(* decorator's configureFlags.  The root holds the engine's flags; the     *)
(* sub-command declares any of six flags of the host program.              *)
(***************************************************************************)
TuiXName == <<"t", "u", "i", "-", "x">>

HostFlags ==
    << Flag(<<"v">>, "bool", FalseStr), Flag(<<"n">>, "int64", <<"1">>),
       Flag(<<"d">>, "duration", <<"1", "s">>), Flag(<<"s">>, "string", <<"q">>),
       Flag(<<"c">>, "count", <<"0">>), Flag(TuiXName, "string", <<"x">>) >>

\* the flags of HostFlags at the positions in S, in VisitAll order
RECURSIVE PickFlags(_, _)
PickFlags(S, i) ==
    IF i > Len(HostFlags) THEN <<>>
    ELSE (IF i \in S THEN <<HostFlags[i]>> ELSE <<>>) \o PickFlags(S, i + 1)

ItemsInit ==
    /\ CallOnly
    /\ \E S \in SUBSET (1..Len(HostFlags)), rootToo \in BOOLEAN :
          call = [pc |-> "collect",
                  flags |-> << TuiFlags \o (IF rootToo THEN <<HostFlags[1]>> ELSE <<>>),
                               PickFlags(S, 1) >>,
                  by |-> "none", items |-> <<>>]

\* c.collectFlagItems(cmd) in Command.configureFlags
ItemsCollectFlagItems ==
    /\ call.pc = "collect"
    /\ call' = [call EXCEPT !.pc = "collected", !.by = "collectFlagItems",
                   !.items = collectFlagItems(ApplyChain, call.flags, 2)]
    /\ UNCHANGED notCall

\* configureFlags(renderer, cmd) in executeLeafCommand
ItemsConfigureFlags ==
    /\ call.pc = "collect"
    /\ call' = [call EXCEPT !.pc = "collected", !.by = "configureFlags",
                   !.items = configureFlagsItems(call.flags, 2)]
    /\ UNCHANGED notCall

ItemsNext ==
    \/ ItemsCollectFlagItems
    \/ ItemsConfigureFlags

SpecItems == ItemsInit /\ [][ItemsNext]_vars

(***************************************************************************)
(* C33 (as claimed): the parameter list never holds a reserved name: no    *)
(* item is named tui and no item's name starts with tui-, whichever of the *)
(* two flows built the list.                                               *)
(***************************************************************************)
Reserved(name) == name = TuiName \/ HasPrefix(name, <<"t", "u", "i", "-">>)

C33_NoReservedNameInForm ==
    call.pc = "collected" =>
        \A i \in 1..Len(call.items) : ~Reserved(call.items[i].Name)

(***************************************************************************)
(* C37 (as claimed): every item of the parameter list carries the type of  *)
(* the flag it was built from: bool for a bool flag, int for int, int32    *)
(* and int64, duration for duration, string for any other, whichever of    *)
(* the two flows built the list.                                           *)
(***************************************************************************)
\* the flag of the nearest scope that declares name, looking from scope 2
NearestFlag(flags, name) ==
    IF Lookup(flags[2], name) # 0 THEN flags[2][Lookup(flags[2], name)]
    ELSE flags[1][Lookup(flags[1], name)]

C37_ItemCarriesFlagType ==
    call.pc = "collected" =>
        \A i \in 1..Len(call.items) :
            call.items[i].Type = FlagTypeOf(NearestFlag(call.flags, call.items[i].Name).Type)

(***************************************************************************)
(* The wrappers wrapExecute installs on an enhanced command and the        *)
(* annotation tui.executed.  call holds                                    *)
(*   kind      what the command had before Enhance: "Run", "RunE", "none"  *)
(*   executed  the annotation tui.executed                                 *)
(*   pc        "host": no wrapper of the command is running;               *)
(*             "marked": a wrapper has set the annotation and is about to  *)
(*             call executeTUIForCommand; "session": inside the session    *)
(*   sessions  how often executeTUIForCommand was called                   *)
(*   depth     the sessions that have not returned yet                     *)
(*   originals how often the original Run or RunE was called               *)
(*   helps     how often the placeholder Run called c.Help()               *)
(*   calls     how often cobra called a wrapper of the command             *)
(*   via, was, reentrant   the last call: the wrapper, the annotation it   *)
(*             found, and whether it came from inside the session          *)
(***************************************************************************)
MaxCalls == 3

\* the HelpFunc wrapper; use is the result of shouldUseTUIForCommand
helpWrapper(d, use) ==
    IF use /\ d.executed = "false"
    THEN [d EXCEPT !.executed = "true", !.pc = "marked"]
    ELSE d

\* a Run wrapper that starts the session whenever TUI mode is on
runWrapper_NoLatch(d, use) ==
    IF use
    THEN [d EXCEPT !.executed = "true", !.pc = "marked"]
    ELSE IF d.kind = "none" THEN helpWrapper([d EXCEPT !.helps = @ + 1], use)
         ELSE [d EXCEPT !.originals = @ + 1]

\* the wrapper cobra calls to run the command: the Run or RunE wrapper, or the
\* placeholder Run of a command that has neither
runWrapper(d, use) ==
    IF use /\ d.executed = "false"
    THEN [d EXCEPT !.executed = "true", !.pc = "marked"]
    ELSE IF d.kind = "none" THEN helpWrapper([d EXCEPT !.helps = @ + 1], use)
         ELSE [d EXCEPT !.originals = @ + 1]

\* cobra calls the wrapper via of the command
invoke(d, via, use, re) ==
    LET e == [d EXCEPT !.calls = @ + 1, !.via = via, !.was = d.executed, !.reentrant = re]
    IN IF via = "help" THEN helpWrapper(e, use) ELSE runWrapper(e, use)

(***************************************************************************)
(* Specification SpecEnhance: the host calls Execute up to MaxCalls times  *)
(* on a command tree whose root was enhanced; a session may run the        *)
(* selected command through the root's Execute, which reaches the          *)
(* enhanced command again when that is the selected one.                   *)
(***************************************************************************)
EnhanceInit ==
    /\ CallOnly
    /\ \E k \in {"Run", "RunE", "none"} :
          call = [pc |-> "host", kind |-> k, executed |-> "false",
                  sessions |-> 0, depth |-> 0, originals |-> 0, helps |-> 0,
                  calls |-> 0, via |-> "none", was |-> "false", reentrant |-> FALSE]

\* the host's Execute reaches the command, or its help
HostInvoke ==
    /\ call.pc = "host"
    /\ call.calls < MaxCalls
    /\ \E via \in {"run", "help"}, use \in BOOLEAN :
          call' = invoke(call, via, use, FALSE)
    /\ UNCHANGED notCall

\* the wrapper calls executeTUIForCommand
StartSession ==
    /\ call.pc = "marked"
    /\ call' = [call EXCEPT !.pc = "session", !.sessions = @ + 1, !.depth = @ + 1]
    /\ UNCHANGED notCall

\* executeOriginalCommand: rootCmd.Execute() with the path of the selected
\* command, which is the enhanced command itself; TUI mode is still on
SessionReenter ==
    /\ call.pc = "session"
    /\ call.calls < MaxCalls
    /\ call' = invoke(call, "run", TRUE, TRUE)
    /\ UNCHANGED notCall

\* the session returns: cancelled, refused, or the selected command has run
SessionEnd ==
    /\ call.pc = "session"
    /\ call' = [call EXCEPT !.depth = @ - 1,
                            !.pc = IF call.depth > 1 THEN "session" ELSE "host"]
    /\ UNCHANGED notCall

EnhanceNext ==
    \/ HostInvoke
    \/ StartSession
    \/ SessionReenter
    \/ SessionEnd

SpecEnhance == EnhanceInit /\ [][EnhanceNext]_vars

(***************************************************************************)
(* C34: for an enhanced command the session is started at most once.  The  *)
(* annotation tui.executed is "true" before the session starts, and a call *)
(* of a wrapper that finds it "true", the re-entrant Execute of the        *)
(* session included, starts no session; the Run or RunE wrapper then calls *)
(* the original Run or RunE.                                               *)
(***************************************************************************)
MarkedBeforeSession ==
    /\ call.sessions <= 1
    /\ (call.pc \in {"marked", "session"} \/ call.sessions > 0) => call.executed = "true"

LaterCallRunsOriginal ==
    (call'.calls = call.calls + 1 /\ call.executed = "true") =>
        /\ call'.pc = call.pc
        /\ call'.sessions = call.sessions
        /\ (call'.via = "run" /\ call.kind # "none") => call'.originals = call.originals + 1

SelectionIsRunnable ==
    sess.selectedPath # <<>> => catalog.run[SelectedCmd(sess.selectedPath)]

RunnableParentOffered ==
    (sess.pc = "menu" /\ catalog.run[sess.cmd]) =>
        \E i \in 1..Len(menu.items) : menu.items[i].ID = catalog.use[sess.cmd]

C35_SelectableIffRunnable ==
    (sess.pc # "off") => (SelectionIsRunnable /\ RunnableParentOffered)

(***************************************************************************)
(* Resolving a command: findCommandByID of the flat menu, and the pair     *)
(* GetCommandFullPath / FindCommandByPath.  A command is a node of the     *)
(* catalog, 0 is nil; a command is Hidden when it is not listed.           *)
(***************************************************************************)
RECURSIVE findCommandByID(_, _, _)
RECURSIVE findCommandByIDIn(_, _, _, _)
\* findCommandByID(root, id): root itself, then depth-first through
\* root.Commands(), by Name()
findCommandByID(c, root, id) ==
    IF CmdName(c, root) = id THEN root
    ELSE findCommandByIDIn(c, Commands(c, root), 1, id)

\* the loop of findCommandByID over root.Commands() from the i-th on
findCommandByIDIn(c, cmds, i, id) ==
    IF i > Len(cmds) THEN 0
    ELSE IF CmdName(c, cmds[i]) = id THEN cmds[i]
    ELSE LET found == findCommandByID(c, cmds[i], id)
         IN IF found # 0 THEN found ELSE findCommandByIDIn(c, cmds, i + 1, id)

\* the inner loop of FindCommandByPath: the first command of cmds named part
\* that is not Hidden
RECURSIVE FindPart(_, _, _, _)
FindPart(c, cmds, i, part) ==
    IF i > Len(cmds) THEN 0
    ELSE IF CmdName(c, cmds[i]) = part /\ c.listed[cmds[i]] THEN cmds[i]
    ELSE FindPart(c, cmds, i + 1, part)

\* the outer loop of FindCommandByPath over parts[i..]
RECURSIVE FindParts(_, _, _, _)
FindParts(c, current, parts, i) ==
    IF i > Len(parts) THEN current
    ELSE LET next == FindPart(c, Commands(c, current), 1, parts[i])
         IN IF next = 0 THEN 0 ELSE FindParts(c, next, parts, i + 1)

FindCommandByPath(c, root, path) ==
    IF path = EmptyStr THEN root ELSE FindParts(c, root, Fields(path), 1)

\* GetCommandFullPath of cobra/command_tree.go: the names from the command
\* up to, and without, the command that has no parent
RECURSIVE PathParts(_, _, _)
PathParts(c, current, pathParts) ==
    IF current = 0 THEN pathParts
    ELSE PathParts(c, c.parent[current],
                   IF c.parent[current] # 0 THEN <<CmdName(c, current)>> \o pathParts
                   ELSE pathParts)

GetCommandFullPath(c, cmd) ==
    LET pathParts == PathParts(c, cmd, <<>>)
    IN IF Len(pathParts) = 0 THEN CmdName(c, cmd) ELSE Join(pathParts)

\* GetCommandFullPath of the CommandNode variant: the root's name included
RECURSIVE PathPartsNode(_, _, _)
PathPartsNode(c, current, pathParts) ==
    IF current = 0 THEN pathParts
    ELSE PathPartsNode(c, c.parent[current], <<CmdName(c, current)>> \o pathParts)

GetCommandFullPathNode(c, cmd) ==
    LET pathParts == PathPartsNode(c, cmd, <<>>)
    IN IF Len(pathParts) = 0 THEN CmdName(c, cmd) ELSE Join(pathParts)

\* navigateAndExecute shows the flat menu
ShowsFlatMenu(c, executableCommands) ==
    /\ ~ ( /\ Len(executableCommands) = 1
           /\ executableCommands[1].ID = CmdName(c, Root)
           /\ c.run[Root] )
    /\ Len(executableCommands) > 0

\* navigateAndExecute from the return of RenderCommandMenu with selectedIndex
\* to the command it hands to executeLeafCommand
selectedCommand(c, selectedIndex) ==
    LET executableCommands == GetExecutableCommands(c)
        items == FlatMenuItems(CmdName(c, Root), executableCommands)
        selectedID == executableCommands[selectedIndex + 1].ID
        selectedCmd == findCommandByID(c, Root, selectedID)
    IN IF selectedCmd = 0
       THEN FindCommandByPath(c, Root, Join(Fields(items[selectedIndex + 1].Label)))
       ELSE selectedCmd

(***************************************************************************)
(* Specification SpecResolve: on a catalog, one entry of the flat menu is  *)
(* selected and resolved to a command, or the path of one listed           *)
(* descendant of the root is built and looked up again.                    *)
(***************************************************************************)
ResolveInit ==
    /\ CallOnly
    /\ \E c \in Catalogs : call = [pc |-> "resolve", catalog |-> c]

\* RenderCommandMenu returned selectedIndex and navigateAndExecute resolves it
DoSelectFlat ==
    /\ call.pc = "resolve"
    /\ LET executableCommands == GetExecutableCommands(call.catalog)
       IN /\ ShowsFlatMenu(call.catalog, executableCommands)
          /\ \E selectedIndex \in 0..(Len(executableCommands) - 1) :
                call' = [pc |-> "selected", catalog |-> call.catalog,
                         index |-> selectedIndex,
                         entry |-> executableCommands[selectedIndex + 1],
                         cmd |-> selectedCommand(call.catalog, selectedIndex)]
    /\ UNCHANGED notCall

\* FindCommandByPath(root, GetCommandFullPath(cmd)) for a listed descendant
DoRoundTrip ==
    /\ call.pc = "resolve"
    /\ \E cmd \in Nodes \ {Root} :
          /\ call.catalog.listed[cmd]
          /\ LET path == GetCommandFullPath(call.catalog, cmd)
             IN call' = [pc |-> "found", catalog |-> call.catalog, of |-> cmd,
                         path |-> path,
                         cmd |-> FindCommandByPath(call.catalog, Root, path)]
    /\ UNCHANGED notCall

\* the same with the GetCommandFullPath of the CommandNode variant
DoRoundTripNode ==
    /\ call.pc = "resolve"
    /\ \E cmd \in Nodes \ {Root} :
          /\ call.catalog.listed[cmd]
          /\ LET path == GetCommandFullPathNode(call.catalog, cmd)
             IN call' = [pc |-> "found", catalog |-> call.catalog, of |-> cmd,
                         path |-> path,
                         cmd |-> FindCommandByPath(call.catalog, Root, path)]
    /\ UNCHANGED notCall

ResolveNext ==
    \/ DoSelectFlat
    \/ DoRoundTrip
    \/ DoRoundTripNode

SpecResolve == ResolveInit /\ [][ResolveNext]_vars

(***************************************************************************)
(* C36 (as claimed): in the flat menu the command handed on after          *)
(* selecting index i is the command entry i of the flattened list was      *)
(* built from, also when runnable commands of different branches have the  *)
(* same name.                                                              *)
(***************************************************************************)
C36_SelectedIsEntrySource ==
    call.pc = "selected" => call.cmd = call.entry.src

(***************************************************************************)
(* C40 (as claimed): for every descendant c of the root that is not        *)
(* hidden, FindCommandByPath(root, GetCommandFullPath(c)) is c.            *)
(***************************************************************************)
C40_PathRoundTrip ==
    call.pc = "found" => call.cmd = call.of

EditedItemIsNotBool ==
    (form # NoPanel /\ form.editMode) => form.items[form.cursor + 1].Type # "bool"

\* what key k does to the form m in edit mode
EditKeyKeeps(m, k) ==
    LET m2 == formUpdate(m, k)
        name == m.items[m.cursor + 1].Name
    IN /\ m2.cursor = m.cursor
       /\ DOMAIN m2.values = DOMAIN m.values
       /\ \A n \in DOMAIN m.values :
             (k # "enter" \/ n # name) => m2.values[n] = m.values[n]

EditKeysKeepCursorAndValues ==
    (form # NoPanel /\ form.editMode) => \A k \in Keys : EditKeyKeeps(form, k)

C39_EditModeConfined ==
    /\ [](EditedItemIsNotBool /\ EditKeysKeepCursorAndValues)
    /\ [][ (form # NoPanel /\ form.editMode /\ form'.editMode) =>
              (form'.cursor = form.cursor /\ form'.values = form.values) ]_vars

\* the second item of a list that starts with a bool is being edited and the
\* buffer no longer holds the item's value
C39_Witness ==
    /\ form # NoPanel
    /\ form.editMode
    /\ form.cursor = 1
    /\ form.items[1].Type = "bool"
    /\ form.editBuffer # form.values[form.items[2].Name]

====
